---------------------------- MODULE Spec2Model ----------------------------
(***************************************************************************)
(* ZIDS garbled-DFA subsystem: the online evaluator (GDFARunner), the OT   *)
(* pad oracle, the offline GDFA builder and the single-file container      *)
(* reader and writer, as state machines over byte strings.                 *)
(*                                                                         *)
(* Byte strings are sequences of integers in 0..255.  Python lists indexed *)
(* by a row or column id are functions over 0..n-1.                        *)
(***************************************************************************)
EXTENDS Integers, Sequences, FiniteSets, TLC

VARIABLES
    pub,      \* GDFAPublicHeader the client holds
    store,    \* RowStore.rows: row id -> ciphertext row bytes
    pads,     \* FakeOracle.pads: row id -> column -> pad bytes
    plain,    \* the transitions the rows were forged from: row -> col -> <<ns, aid>>
    ev,       \* locals of the running GDFARunner.evaluate call
    odfa,     \* the ODFA handed to build_gdfa_stream
    bld,      \* build_gdfa_stream: parameters, header, secrets, rows yielded so far
    ot,       \* one row's OT plan, secrets, ciphertext row and the oracle's answer
    fs        \* the container file, what was written into it and the loader's outcome

vars == <<pub, store, pads, plain, ev, odfa, bld, ot, fs>>

-----------------------------------------------------------------------------
(* Integers and byte strings                                               *)

RECURSIVE Pow2(_)
Pow2(n) == IF n <= 0 THEN 1 ELSE 2 * Pow2(n - 1)

\* int.bit_length() of a non-negative integer
RECURSIVE BitLength(_)
BitLength(n) == IF n <= 0 THEN 0 ELSE 1 + BitLength(n \div 2)

Max(a, b) == IF a >= b THEN a ELSE b

Min(a, b) == IF a <= b THEN a ELSE b

CeilDiv(a, b) == (a + b - 1) \div b

\* a ^ b on non-negative integers
RECURSIVE XorInt(_, _)
XorInt(a, b) ==
    IF a = 0 THEN b
    ELSE IF b = 0 THEN a
    ELSE (((a % 2) + (b % 2)) % 2) + 2 * XorInt(a \div 2, b \div 2)

\* a & b on non-negative integers
RECURSIVE AndInt(_, _)
AndInt(a, b) ==
    IF a = 0 \/ b = 0 THEN 0
    ELSE ((a % 2) * (b % 2)) + 2 * AndInt(a \div 2, b \div 2)

\* a | b on non-negative integers
RECURSIVE OrInt(_, _)
OrInt(a, b) ==
    IF a = 0 THEN b
    ELSE IF b = 0 THEN a
    ELSE (IF (a % 2) + (b % 2) > 0 THEN 1 ELSE 0) + 2 * OrInt(a \div 2, b \div 2)

\* bytes(a ^ b for a, b in zip(s, t)): zip stops at the shorter operand
XorBytes(s, t) == [i \in 1..Min(Len(s), Len(t)) |-> XorInt(s[i], t[i])]

\* int.from_bytes(s, "big")
RECURSIVE FromBytesBE(_)
FromBytesBE(s) ==
    IF Len(s) = 0 THEN 0
    ELSE 256 * FromBytesBE(SubSeq(s, 1, Len(s) - 1)) + s[Len(s)]

\* v.to_bytes(n, "big"), for 0 <= v < 256^n
ToBytesBE(v, n) == [i \in 1..n |-> (v \div Pow2(8 * (n - i))) % 256]

\* s[a:b] of a byte string (0-based, end exclusive, clipped like Python)
Slice(s, a, b) == SubSeq(s, Min(a, Len(s)) + 1, Min(b, Len(s)))

\* b"".join(list) for a list given as a function over 0..n-1
RECURSIVE JoinRows(_, _)
JoinRows(f, n) == IF n = 0 THEN <<>> ELSE JoinRows(f, n - 1) \o f[n - 1]

-----------------------------------------------------------------------------
(* Cell format: ns_bits | aid_bits | pad_bits, MSB first                   *)

\* a derivation that sizes the ns field for num_states rather than num_states - 1
DeriveCellFormatWide(p) ==
    LET cell_bits == p.cell_bytes * 8
        ns_bits   == Max(1, BitLength(p.num_states))
    IN  IF ns_bits + p.aid_bits > cell_bits
        THEN [ok |-> FALSE, ns_bits |-> ns_bits, aid_bits |-> p.aid_bits, pad_bits |-> 0]
        ELSE [ok |-> TRUE, ns_bits |-> ns_bits, aid_bits |-> p.aid_bits,
              pad_bits |-> cell_bits - (ns_bits + p.aid_bits)]

\* _derive_cell_format of the evaluator; ok = FALSE stands for its ValueError
DeriveCellFormat(p) ==
    LET cell_bits == p.cell_bytes * 8
        ns_bits   == Max(1, BitLength(p.num_states - 1))
    IN  IF ns_bits + p.aid_bits > cell_bits
        THEN [ok |-> FALSE, ns_bits |-> ns_bits, aid_bits |-> p.aid_bits, pad_bits |-> 0]
        ELSE [ok |-> TRUE, ns_bits |-> ns_bits, aid_bits |-> p.aid_bits,
              pad_bits |-> cell_bits - (ns_bits + p.aid_bits)]

\* _derive_cell_format of ot_pad_oracle: the tuple (cell_bits, cell_bytes, ns_bits,
\* aid_bits, pad_bits); ok = FALSE stands for its ValueError
OracleCellFormat(p) ==
    LET cell_bits == p.cell_bytes * 8
        ns_bits   == Max(1, BitLength(p.num_states - 1))
    IN  IF ns_bits + p.aid_bits > cell_bits
        THEN [ok |-> FALSE, cell_bits |-> cell_bits, cell_bytes |-> 0,
              ns_bits |-> ns_bits, aid_bits |-> p.aid_bits, pad_bits |-> 0]
        ELSE [ok |-> TRUE, cell_bits |-> cell_bits, cell_bytes |-> CeilDiv(cell_bits, 8),
              ns_bits |-> ns_bits, aid_bits |-> p.aid_bits,
              pad_bits |-> cell_bits - (ns_bits + p.aid_bits)]

TotalBits(fmt) == fmt.ns_bits + fmt.aid_bits + fmt.pad_bits

TotalBytes(fmt) == CeilDiv(TotalBits(fmt), 8)

\* _pack_cell / _pack_bits: ((ns << aid_bits) | aid) << pad_bits, to total_bytes bytes
PackValue(ns, aid, fmt) == OrInt(ns * Pow2(fmt.aid_bits), aid) * Pow2(fmt.pad_bits)

\* _unpack_cell: the (ns, aid) fields of a plaintext cell
UnpackCell(pt, fmt) ==
    LET v == FromBytesBE(pt) \div Pow2(fmt.pad_bits)
    IN  [ns  |-> (v \div Pow2(fmt.aid_bits)) % Pow2(fmt.ns_bits),
         aid |-> v % Pow2(fmt.aid_bits)]

-----------------------------------------------------------------------------
(* PRF and PRG.  HMAC-SHA256 and SHA-256 are replaced by a 32-byte rolling  *)
(* digest; the counter-mode expansion, labels, truncation and bit masking  *)
(* around them are those of the source.                                    *)

HashLen == 32

\* i2osp(x, length); the model's integers always fit 4 bytes
I2OSP(x, L) == ToBytesBE(x, L)

\* 257^k modulo 32749
RECURSIVE PowMod(_)
PowMod(k) ==
    IF k = 0 THEN 1
    ELSE LET hlf == PowMod(k \div 2)
         IN  (((hlf * hlf) % 32749) * (IF k % 2 = 1 THEN 257 ELSE 1)) % 32749

\* the bytes s[lo..hi] read as a polynomial in 257 modulo 32749
RECURSIVE Poly(_, _, _)
Poly(s, lo, hi) ==
    IF lo > hi THEN 0
    ELSE IF lo = hi THEN (s[lo] + 1) % 32749
    ELSE LET mid == (lo + hi) \div 2
         IN  ((Poly(s, lo, mid) * PowMod(hi - mid)) + Poly(s, mid + 1, hi)) % 32749

\* the digest state h after the bytes of s: h := (257 * h + byte + 1) mod 32749 per byte
Absorb(h, s) == (((h % 32749) * PowMod(Len(s))) + Poly(s, 1, Len(s))) % 32749

Squeeze(h) ==
    [j \in 1..HashLen |->
        IF j = 1 THEN h % 256
        ELSE IF j = 2 THEN h \div 256
        ELSE (((h + 131 * j) * (2 * j + 1)) \div 7) % 256]

\* hashlib.sha256(data).digest()
Sha256(data) == Squeeze(Absorb(7, data))

\* hmac.new(key, data, sha256).digest()
Hmac(key, data) == Squeeze(Absorb(Absorb(11, key) + 1, data))

AsciiPRG == <<80, 82, 71, 124>>
AsciiCtr == <<124, 99, 116, 114, 61>>
AsciiLen == <<124, 108, 101, 110, 61>>
AsciiGdfaCell == <<80, 82, 71, 124, 71, 68, 70, 65, 124, 99, 101, 108, 108>>
AsciiSeedRow == <<90, 73, 68, 83, 124, 83, 69, 69, 68, 124, 114, 111, 119, 61>>
AsciiCol == <<124, 99, 111, 108, 61>>
AsciiOfflineRow == <<79, 70, 70, 76, 73, 78, 69, 124, 114, 111, 119, 61>>

\* _prg_ctr: block_i = HMAC(seed, "PRG|" label "|ctr=" I2OSP(i,4) "|len=" I2OSP(out_len,4))
RECURSIVE PrgBlocks(_, _, _, _)
PrgBlocks(seed, out_len, label, i) ==
    IF (i - 1) * HashLen >= out_len THEN <<>>
    ELSE Hmac(seed, AsciiPRG \o label \o AsciiCtr \o I2OSP(i, 4) \o AsciiLen \o I2OSP(out_len, 4))
         \o PrgBlocks(seed, out_len, label, i + 1)

PrgCtr(seed, out_len, label) == SubSeq(PrgBlocks(seed, out_len, label, 1), 1, out_len)

\* G_bits: ceil(out_bits / 8) bytes, the low bits of the last byte zeroed
GBits(seed, out_bits, label) ==
    LET out_len == (out_bits + 7) \div 8
        buf == PrgCtr(seed, out_len, label)
        r == out_bits % 8
    IN  IF out_len = 0 THEN <<>>
        ELSE IF r = 0 THEN buf
        ELSE [buf EXCEPT ![out_len] = AndInt(@, (255 * Pow2(8 - r)) % 256)]

\* _hkdf_expand: T(n) = HMAC(prk, T(n-1) || info || counter)
RECURSIVE HkdfBlocks(_, _, _, _, _)
HkdfBlocks(prk, info, out_len, counter, t) ==
    IF (counter - 1) * HashLen >= out_len THEN <<>>
    ELSE LET tn == Hmac(prk, t \o info \o I2OSP(counter, 4))
         IN  tn \o HkdfBlocks(prk, info, out_len, counter + 1, tn)

\* prf_msg(key, info, out_len), for a non-empty key
PrfMsg(key, info, out_len) ==
    IF out_len = 0 THEN <<>> ELSE SubSeq(HkdfBlocks(key, info, out_len, 1, <<>>), 1, out_len)

-----------------------------------------------------------------------------
(* Online evaluation over forged rows (test/unit/test_online_eval.py)      *)

EvNumStates == 4
EvOutmax == 2
EvCmax == 2
EvAidBits == 8
EvAlphabet == 256
EvCellBytes == 2
MaxLen == 3

\* the attack ids the forged cells may carry in column 0 and in column 1
AidChoices == <<{0, 9}, {0, 7}>>

\* the input bytes fed to evaluate
InputBytes == {0, 1}

RECURSIVE SeqsUpTo(_, _)
SeqsUpTo(S, n) ==
    IF n = 0 THEN {<<>>}
    ELSE LET shorter == SeqsUpTo(S, n - 1)
         IN  shorter \cup {Append(q, x) : q \in {t \in shorter : Len(t) = n - 1}, x \in S}

EvRows == 0..(EvNumStates - 1)
EvCols == 0..(EvOutmax - 1)

EvPub ==
    [alphabet_size |-> EvAlphabet, outmax |-> EvOutmax, cmax |-> EvCmax,
     num_states |-> EvNumStates, start_row |-> 0,
     permutation |-> [i \in EvRows |-> i],
     cell_bytes |-> EvCellBytes, row_bytes |-> EvOutmax * EvCellBytes,
     aid_bits |-> EvAidBits]

\* col 0: next = (row + 1) % N; col 1: self-loop; the attack ids are chosen per cell
EvTransitions(aids) ==
    [r \in EvRows |-> [c \in EvCols |->
        [ns |-> IF c = 0 THEN (r + 1) % EvNumStates ELSE r, aid |-> aids[r][c]]]]

\* outcomes of os.urandom(cell_bytes) for the pads, one table per choice
PadTables ==
    { [r \in EvRows |-> [c \in EvCols |-> [i \in 1..EvCellBytes |-> 0]]],
      [r \in EvRows |-> [c \in EvCols |->
          [i \in 1..EvCellBytes |-> (37 * r + 101 * c + 59 * i + 17) % 256]]] }

\* pt = _pack_cell(...); ct = pt xor pad; the row is the concatenation of its cells
ForgeRow(tr, pd, r, p) ==
    LET fmt == DeriveCellFormat(p)
        cell(c) == XorBytes(ToBytesBE(PackValue(tr[r][c].ns, tr[r][c].aid, fmt), p.cell_bytes),
                            pd[r][c])
    IN  JoinRows([c \in 0..(p.outmax - 1) |-> cell(c)], p.outmax)

\* FakeOracle.derive_for_row: col = x % outmax and the preloaded pad
FakeDerive(row_id, x) ==
    LET col == x % EvOutmax IN [col |-> col, pad |-> pads[row_id][col]]

\* RowStore.get: a ValueError for a row id out of range
StoreGet(row_id) ==
    IF 0 <= row_id /\ row_id < pub.num_states
    THEN [ok |-> TRUE, row |-> store[row_id]]
    ELSE [ok |-> FALSE, row |-> <<>>]

\* GDFARunner._slice_cell
SliceCell(row_bytes, col) ==
    Slice(row_bytes, col * pub.cell_bytes, col * pub.cell_bytes + pub.cell_bytes)

EvIdle ==
    [pc |-> "idle", data |-> <<>>, stop |-> FALSE, pos |-> 0, row |-> 0,
     first |-> 0, last |-> 0, steps |-> 0, asked |-> <<>>, result |-> <<>>]

EvalResult(e) ==
    <<[final_row |-> e.row, first_attack_id |-> e.first,
       last_attack_id |-> e.last, steps |-> e.steps]>>

StopsHereNever(stop, aid) == FALSE

\* the early return of evaluate: "if aid: ... if stop_on_first_attack: return"
StopsHere(stop, aid) == aid # 0 /\ stop

AttackUpdateOverwrite(e, aid) ==
    [e EXCEPT !.last = IF aid # 0 THEN aid ELSE @, !.first = IF aid # 0 THEN aid ELSE @]

\* first_attack / last_attack after a cell with attack id aid
AttackUpdate(e, aid) ==
    [e EXCEPT !.last  = IF aid # 0 THEN aid ELSE @,
              !.first = IF aid # 0 /\ @ = 0 THEN aid ELSE @]

EvalInit ==
    /\ pub = EvPub
    /\ \E aids \in [EvRows -> [EvCols -> AidChoices[1] \cup AidChoices[2]]] :
         /\ \A r \in EvRows : \A c \in EvCols : aids[r][c] \in AidChoices[c + 1]
         /\ plain = EvTransitions(aids)
    /\ pads \in PadTables
    /\ store = [r \in EvRows |-> ForgeRow(plain, pads, r, pub)]
    /\ ev = EvIdle
    /\ odfa = <<>> /\ bld = <<>> /\ ot = <<>> /\ fs = <<>>

\* the locals of evaluate(data, stop_on_first_attack=stop) when the loop reaches its
\* first oracle call, or the call returned at once on empty input
Begin(data, stop) ==
    LET e == [EvIdle EXCEPT !.data = data, !.stop = stop, !.row = pub.start_row]
    IN  IF Len(data) = 0
        THEN [e EXCEPT !.pc = "returned", !.result = EvalResult(e)]
        ELSE [e EXCEPT !.pc = "loop"]

\* a runner that keeps the current row of its first stream for every stream
RowOfShared(e) == IF DOMAIN ev = {1, 2} THEN ev[1].loc.row ELSE e.row

\* the current row an iteration of the loop works on: a local of the call
RowOf(e) == e.row

\* one iteration of the loop of evaluate with locals e over the byte at e.pos, up to
\* the next oracle call, the early return or the return after the last byte
LoopPass(e) ==
    LET x    == e.data[e.pos + 1]
        d    == FakeDerive(RowOf(e), x)
        got  == StoreGet(RowOf(e))
        fmt  == DeriveCellFormat(pub)
        ct   == SliceCell(got.row, d.col)
        pt   == XorBytes(ct, d.pad)
        asked == Append(e.asked, <<RowOf(e), x>>)
    IN  IF \/ Len(d.pad) # pub.cell_bytes
           \/ ~got.ok
           \/ ~(0 <= d.col /\ d.col < pub.outmax)
           \/ Len(pt) # TotalBytes(fmt)
        THEN [e EXCEPT !.pc = "raised", !.asked = asked]
        ELSE LET cell == UnpackCell(pt, fmt)
                 e1   == AttackUpdate([e EXCEPT !.row = cell.ns, !.steps = @ + 1,
                                          !.pos = @ + 1, !.asked = asked], cell.aid)
             IN  IF StopsHere(e.stop, cell.aid) \/ e1.pos = Len(e.data)
                 THEN [e1 EXCEPT !.pc = "returned", !.result = EvalResult(e1)]
                 ELSE e1

\* evaluate is called: the locals are set and the loop reaches its first oracle call,
\* or returns at once on empty input
EvalStart ==
    /\ ev.pc \in {"idle", "returned", "raised"}
    /\ \E data \in SeqsUpTo(InputBytes, MaxLen), stop \in BOOLEAN :
         ev' = Begin(data, stop)
    /\ UNCHANGED <<pub, store, pads, plain, odfa, bld, ot, fs>>

\* one iteration of the loop of evaluate over the byte at ev.pos, up to the next
\* oracle call, the early return or the return after the last byte
EvalStep ==
    /\ ev.pc = "loop"
    /\ ev' = LoopPass(ev)
    /\ UNCHANGED <<pub, store, pads, plain, odfa, bld, ot, fs>>

EvalNext == EvalStart \/ EvalStep

SpecEval == EvalInit /\ [][EvalNext]_vars

-----------------------------------------------------------------------------
(* Properties of evaluate                                                  *)

\* the plaintext cell met at the k-th byte and the run after k bytes, read off the
\* transitions the rows were forged from
RECURSIVE RefAfter(_)
RefCell(k) ==
    plain[RefAfter(k - 1).row][FakeDerive(RefAfter(k - 1).row, ev.data[k]).col]
RefAfter(k) ==
    IF k = 0 THEN [row |-> pub.start_row, first |-> 0, last |-> 0]
    ELSE LET p == RefAfter(k - 1)
             cell == RefCell(k)
         IN  [row   |-> cell.ns,
              first |-> IF cell.aid > 0 /\ p.first = 0 THEN cell.aid ELSE p.first,
              last  |-> IF cell.aid > 0 THEN cell.aid ELSE p.last]

\* the 1-based position of the first byte whose cell carries aid > 0, 0 if there is none
FirstHit ==
    LET hits == {k \in 1..Len(ev.data) : RefCell(k).aid > 0}
    IN  IF hits = {} THEN 0 ELSE CHOOSE k \in hits : \A j \in hits : k <= j

\* C1: evaluate starts at start_row and after each byte the current row is the ns of
\* the cell the oracle selected, steps counts the bytes, last_attack_id is the most
\* recent positive aid and first_attack_id the first one; with
\* stop_on_first_attack=False every byte is consumed and the result reports the row,
\* the attack ids and steps = len(data) after the last byte.
C1_EvaluateFollowsCells ==
    /\ ev.pc # "raised"
    /\ ev.pc \in {"loop", "returned"} =>
          /\ ev.steps = ev.pos
          /\ ev.row = RefAfter(ev.steps).row
          /\ ev.first = RefAfter(ev.steps).first
          /\ ev.last = RefAfter(ev.steps).last
    /\ (ev.pc = "returned" /\ ~ev.stop) =>
          /\ ev.steps = Len(ev.data)
          /\ ev.result = <<[final_row |-> RefAfter(Len(ev.data)).row,
                            first_attack_id |-> RefAfter(Len(ev.data)).first,
                            last_attack_id |-> RefAfter(Len(ev.data)).last,
                            steps |-> Len(ev.data)]>>

C1_Witness ==
    /\ ev.pc = "returned" /\ ~ev.stop /\ Len(ev.data) >= 2
    /\ ev.result[1].first_attack_id > 0
    /\ ev.result[1].last_attack_id > 0
    /\ ev.result[1].first_attack_id # ev.result[1].last_attack_id

\* C2: with stop_on_first_attack=True evaluate returns right after the first byte
\* whose cell carries aid > 0: steps is that byte's 1-based position, first and last
\* attack id are that aid, final_row is that cell's ns, and no later byte is
\* processed or asked of the oracle; before that byte it does not return early.
C2_StopsAtFirstAttack ==
    /\ (ev.pc = "returned" /\ ev.stop /\ FirstHit > 0) =>
          /\ ev.result = <<[final_row |-> RefCell(FirstHit).ns,
                            first_attack_id |-> RefCell(FirstHit).aid,
                            last_attack_id |-> RefCell(FirstHit).aid,
                            steps |-> FirstHit]>>
          /\ Len(ev.asked) = FirstHit
          /\ ev.pos = FirstHit
    /\ (ev.pc = "returned" /\ ev.stop /\ FirstHit = 0) => ev.steps = Len(ev.data)
    /\ (ev.pc = "loop" /\ ev.stop) => (FirstHit = 0 \/ FirstHit > ev.steps)

C2_Witness ==
    /\ ev.pc = "returned" /\ ev.stop
    /\ FirstHit > 1 /\ FirstHit < Len(ev.data)
    /\ ev.result[1].steps = FirstHit

-----------------------------------------------------------------------------
(* Offline builder: build_gdfa_stream and its row generator                *)

\* len() of a Python list held as a function over 0..n-1
Size(f) == Cardinality(DOMAIN f)

\* a Python list from a tuple
List(t) == [i \in 0..(Len(t) - 1) |-> t[i + 1]]

Edge(g, ns, aid) == [group_id |-> g, next_state |-> ns, attack_id |-> aid]

\* the edge lists an ODFA row is drawn from
RowChoices ==
    { List(<<>>),
      List(<<Edge(0, 1, 0)>>),
      List(<<Edge(0, 1, 0), Edge(1, 2, 3)>>),
      List(<<Edge(2, 0, 4)>>),
      List(<<Edge(0, 1, -1)>>) }

OdfaStates == {2, 3}
OdfaStarts == {0, 2}

\* the 16-bit values os.urandom(2) is drawn from in sample_perm
RandomDraws == {0, 1, 2, 65535}

\* (sec, sp, aid_bits, master key of pad_seed_fn or <<>> for none)
Params(k, kp, om, cm, ab, mk) ==
    [k_bits |-> k, kprime_bits |-> kp, kappa |-> 8, alphabet_size |-> 256,
     outmax |-> om, cmax |-> cm, aid_bits |-> ab, master |-> mk]

ParamChoices ==
    { Params(8, 8, 2, 2, 2, <<>>),
      Params(8, 8, 2, 1, 2, <<5>>),
      Params(8, 8, 1, 1, 3, <<>>),
      Params(8, 8, 1, 1, 7, <<>>),
      Params(8, 12, 2, 2, 2, <<>>),
      Params(8, 16, 1, 1, 2, <<>>),
      Params(8, 8, 2, 0, 2, <<>>),
      Params(8, 8, 2, 2, 0, <<>>) }

\* outcomes of os.urandom(k_bytes), one per (row, column)
SeedChoices(k_bytes) ==
    { [r \in 0..3 |-> [c \in 0..3 |-> [i \in 1..k_bytes |-> (3 * r + c) % 256]]],
      [r \in 0..3 |-> [c \in 0..3 |-> [i \in 1..k_bytes |-> (201 + 29 * r + 7 * c + i) % 256]]] }

\* SecurityParams.sanity_check and SparsityParams.sanity_check, then make_packing
MakePacking(pr) ==
    IF \/ pr.k_bits <= 0 \/ pr.kprime_bits <= 0 \/ pr.kappa <= 0
       \/ pr.alphabet_size <= 0
       \/ pr.k_bits % 8 # 0 \/ pr.kprime_bits % 8 # 0
       \/ pr.outmax <= 0 \/ pr.cmax <= 0 \/ pr.cmax > pr.alphabet_size
    THEN [ok |-> FALSE]
    ELSE [ok |-> TRUE,
          k_bytes |-> CeilDiv(pr.k_bits, 8), kprime_bytes |-> CeilDiv(pr.kprime_bits, 8),
          alphabet_size |-> pr.alphabet_size, outmax |-> pr.outmax, cmax |-> pr.cmax,
          ot256_entry_len_bytes |-> pr.cmax * CeilDiv(pr.kprime_bits, 8),
          gdfa_cell_pad_bits |-> pr.outmax * pr.kprime_bits]

\* ODFA.sanity_check(outmax): TRUE when it raises nothing
SanityCheck(o, outmax) ==
    /\ o.num_states > 0
    /\ 0 <= o.start_state /\ o.start_state < o.num_states
    /\ Size(o.rows) = o.num_states
    /\ \A st \in DOMAIN o.rows :
         /\ Size(o.rows[st]) <= outmax
         /\ \A c \in DOMAIN o.rows[st] :
              /\ 0 <= o.rows[st][c].next_state
              /\ o.rows[st][c].next_state < o.num_states
              /\ o.rows[st][c].attack_id >= 0

\* a plan_cell_format without the check that the fields fit the cell
PlanCellFormatUnchecked(num_states, pack, aid_bits) ==
    LET ns_bits == Max(1, BitLength(num_states - 1))
    IN  [ok |-> num_states > 0 /\ aid_bits > 0, ns_bits |-> ns_bits, aid_bits |-> aid_bits,
         pad_bits |-> pack.gdfa_cell_pad_bits - (ns_bits + aid_bits)]

\* plan_cell_format(num_states, pack, aid_bits)
PlanCellFormat(num_states, pack, aid_bits) ==
    LET ns_bits == Max(1, BitLength(num_states - 1))
    IN  IF num_states <= 0 \/ aid_bits <= 0 \/ ns_bits + aid_bits > pack.gdfa_cell_pad_bits
        THEN [ok |-> FALSE, ns_bits |-> ns_bits, aid_bits |-> aid_bits, pad_bits |-> 0]
        ELSE [ok |-> TRUE, ns_bits |-> ns_bits, aid_bits |-> aid_bits,
              pad_bits |-> pack.gdfa_cell_pad_bits - (ns_bits + aid_bits)]

\* a shuffle that copies perm[j] into perm[i] without swapping
RECURSIVE ShuffleOverwrite(_, _, _)
ShuffleOverwrite(perm, i, draws) ==
    IF i < 1 THEN perm
    ELSE LET j == draws[i] % (i + 1)
         IN  ShuffleOverwrite([perm EXCEPT ![i] = perm[j]], i - 1, draws)

\* sample_perm: for i = n-1 down to 1, j = draw % (i + 1), swap perm[i] and perm[j]
RECURSIVE Shuffle(_, _, _)
Shuffle(perm, i, draws) ==
    IF i < 1 THEN perm
    ELSE LET j == draws[i] % (i + 1)
         IN  Shuffle([perm EXCEPT ![i] = perm[j], ![j] = perm[i]], i - 1, draws)

SamplePerm(n, draws) == Shuffle([i \in 0..(n - 1) |-> i], n - 1, draws)

\* inverse_perm: inv[perm[i]] = i, later entries overwriting earlier ones
RECURSIVE InvFill(_, _, _)
InvFill(perm, inv, i) ==
    IF i >= Size(perm) THEN inv
    ELSE InvFill(perm, [inv EXCEPT ![perm[i]] = i], i + 1)

InversePerm(perm) == InvFill(perm, [i \in 0..(Size(perm) - 1) |-> 0], 0)

\* make_pad_seed_fn_from_master: PRF(master, "OFFLINE|row=" I2OSP(row,4) "|col=" I2OSP(col,2))
MasterPadSeed(master, row, col, k_bytes) ==
    PrfMsg(master, AsciiOfflineRow \o I2OSP(row, 4) \o AsciiCol \o I2OSP(col, 2), k_bytes)

PadRowUnpadded(edges, outmax) == edges

\* pad_row_to_outmax: dummy edges (group_id -1, next_state 0, attack_id 0) up to outmax
PadRowToOutmax(edges, outmax) ==
    [c \in 0..(Max(outmax, Size(edges)) - 1) |->
        IF c < Size(edges) THEN edges[c] ELSE Edge(-1, 0, 0)]

\* _pack_bits: a ValueError when ns or aid does not fit its field
PackBits(ns, aid, fmt) ==
    IF ns < 0 \/ ns >= Pow2(fmt.ns_bits) \/ aid < 0 \/ aid >= Pow2(fmt.aid_bits)
    THEN [ok |-> FALSE, bytes |-> <<>>]
    ELSE [ok |-> TRUE, bytes |-> ToBytesBE(PackValue(ns, aid, fmt), TotalBytes(fmt))]

CellPlainUnpermuted(edge, inv_perm, fmt) == PackBits(edge.next_state, edge.attack_id, fmt)

\* the plaintext of one cell: the permuted next state and the attack id
CellPlain(edge, inv_perm, fmt) == PackBits(inv_perm[edge.next_state], edge.attack_id, fmt)

BuildInit ==
    /\ \E n \in OdfaStates, st \in OdfaStarts :
         \E rows \in [0..(n - 1) -> RowChoices] :
            odfa = [num_states |-> n, start_state |-> st, rows |-> rows]
    /\ \E pr \in ParamChoices : bld = [pc |-> "new", params |-> pr]
    /\ pub = <<>> /\ store = <<>> /\ pads = <<>> /\ plain = <<>> /\ ev = <<>>
    /\ ot = <<>> /\ fs = <<>>

\* build_gdfa_stream up to "return GDFAStream(...)": the rows are generated lazily
BuildStart ==
    /\ bld.pc = "new"
    /\ LET pr   == bld.params
           pack == MakePacking(pr)
       IN  IF ~pack.ok \/ ~SanityCheck(odfa, pr.outmax)
           THEN bld' = [bld EXCEPT !.pc = "build_raised"]
           ELSE
           LET fmt == PlanCellFormat(odfa.num_states, pack, pr.aid_bits)
           IN  IF ~fmt.ok
               THEN bld' = [bld EXCEPT !.pc = "build_raised"]
               ELSE
               \E draws \in [1..(odfa.num_states - 1) -> RandomDraws],
                  urandom \in SeedChoices(pack.k_bytes) :
                  LET perm == SamplePerm(odfa.num_states, draws)
                      inv_perm == InversePerm(perm)
                      cell_bytes == TotalBytes(fmt)
                      pad_seeds ==
                         [r \in 0..(odfa.num_states - 1) |-> [c \in 0..(pr.outmax - 1) |->
                            IF pr.master = <<>> THEN urandom[r][c]
                            ELSE MasterPadSeed(pr.master, r, c, pack.k_bytes)]]
                  IN  bld' = [pc |-> "stream", params |-> pr, pack |-> pack, fmt |-> fmt,
                              public |->
                                [alphabet_size |-> pr.alphabet_size, outmax |-> pr.outmax,
                                 cmax |-> pr.cmax, num_states |-> odfa.num_states,
                                 start_row |-> inv_perm[odfa.start_state],
                                 permutation |-> perm, cell_bytes |-> cell_bytes,
                                 row_bytes |-> pr.outmax * cell_bytes,
                                 aid_bits |-> pr.aid_bits],
                              secrets |-> [pad_seeds |-> pad_seeds,
                                           inv_permutation |-> inv_perm],
                              rows |-> List(<<>>)]
    /\ UNCHANGED <<pub, store, pads, plain, ev, odfa, ot, fs>>

\* one next() on the row generator: the row for new_row = number of rows yielded so
\* far, or the ValueError of _pack_bits; the generator ends after the last row
BuildRow ==
    /\ bld.pc = "stream"
    /\ LET new_row   == Size(bld.rows)
           old_state == bld.public.permutation[new_row]
           padded    == PadRowToOutmax(odfa.rows[old_state], bld.params.outmax)
           pt(c)     == CellPlain(padded[c], bld.secrets.inv_permutation, bld.fmt)
           pad(c)    == GBits(bld.secrets.pad_seeds[new_row][c],
                              bld.pack.gdfa_cell_pad_bits, AsciiGdfaCell)
           cells     == [c \in DOMAIN padded |-> XorBytes(pt(c).bytes, pad(c))]
           buf       == JoinRows(cells, Size(padded))
       IN  IF \E c \in DOMAIN padded : ~pt(c).ok
           THEN bld' = [bld EXCEPT !.pc = "rows_raised"]
           ELSE IF Len(buf) # bld.public.row_bytes
           THEN bld' = [bld EXCEPT !.pc = "assert_failed"]
           ELSE bld' = [bld EXCEPT
                          !.rows = [i \in 0..new_row |-> IF i = new_row THEN buf ELSE @[i]],
                          !.pc = IF new_row + 1 = odfa.num_states THEN "done" ELSE "stream"]
    /\ UNCHANGED <<pub, store, pads, plain, ev, odfa, ot, fs>>

BuildNext == BuildStart \/ BuildRow

SpecBuild == BuildInit /\ [][BuildNext]_vars

-----------------------------------------------------------------------------
(* Properties of the builder                                               *)

\* the c-th edge of an ODFA row after padding with dummy edges
PaddedEdge(st, c) ==
    IF c < Size(odfa.rows[st]) THEN odfa.rows[st][c]
    ELSE [group_id |-> -1, next_state |-> 0, attack_id |-> 0]

\* the plaintext obtained from a yielded row with the server's pad seed, as the
\* client derives the cell format from the public header
DecryptCell(new_row, c) ==
    LET p   == bld.public
        ct  == Slice(bld.rows[new_row], c * p.cell_bytes, (c + 1) * p.cell_bytes)
        pad == GBits(bld.secrets.pad_seeds[new_row][c], p.cell_bytes * 8, AsciiGdfaCell)
    IN  XorBytes(ct, pad)

Yielding == bld.pc \in {"stream", "done", "rows_raised", "assert_failed"}

\* C4: every cell of every row build_gdfa_stream yields, XOR-ed with the pad expanded
\* from pad_seeds[new_row][c], is a plaintext whose ns field is
\* inv_perm[edge.next_state], whose aid field is edge.attack_id and whose low
\* pad_bits are zero, edge being the c-th edge of ODFA row perm[new_row] padded with
\* dummy edges (0, 0); a dummy cell carries (inv_perm[0], 0).
C4_CellsDecrypt ==
    Yielding =>
      \A new_row \in DOMAIN bld.rows : \A c \in 0..(bld.public.outmax - 1) :
        LET fmt  == DeriveCellFormat(bld.public)
            pt   == DecryptCell(new_row, c)
            cell == UnpackCell(pt, fmt)
            edge == PaddedEdge(bld.public.permutation[new_row], c)
        IN  /\ fmt.ok
            /\ Len(pt) = bld.public.cell_bytes
            /\ cell.ns = bld.secrets.inv_permutation[edge.next_state]
            /\ cell.aid = edge.attack_id
            /\ FromBytesBE(pt) % Pow2(fmt.pad_bits) = 0
            /\ cell.ns < odfa.num_states

C4_Witness ==
    /\ bld.pc = "done" /\ odfa.num_states = 3
    /\ bld.public.permutation[0] # 0
    /\ bld.secrets.inv_permutation[0] # 0
    /\ \E new_row \in DOMAIN bld.rows :
         /\ Size(odfa.rows[bld.public.permutation[new_row]]) < bld.public.outmax
         /\ UnpackCell(DecryptCell(new_row, bld.public.outmax - 1),
                       DeriveCellFormat(bld.public)).ns = bld.secrets.inv_permutation[0]
    /\ \E new_row \in DOMAIN bld.rows :
         UnpackCell(DecryptCell(new_row, 0), DeriveCellFormat(bld.public)).aid > 0

AidsFit ==
    \A st \in DOMAIN odfa.rows : \A c \in DOMAIN odfa.rows[st] :
        odfa.rows[st][c].attack_id < Pow2(bld.params.aid_bits)

RowsWellSized ==
    \A r \in DOMAIN bld.rows : Len(bld.rows[r]) = bld.public.outmax * bld.public.cell_bytes

\* C5 as stated: once build_gdfa_stream has accepted the ODFA (sanity_check) and the
\* parameters (make_packing, plan_cell_format), iterating its rows raises nothing and
\* ends with exactly num_states rows of outmax * cell_bytes bytes each.
C5_AsStated ==
    /\ bld.pc \notin {"rows_raised", "assert_failed"}
    /\ Yielding => RowsWellSized
    /\ bld.pc = "done" => Size(bld.rows) = odfa.num_states

\* C5 amended: the same, for ODFAs whose attack ids are all below 2^aid_bits; the row
\* iteration fails (in _pack_bits) only when some attack id is 2^aid_bits or more, and
\* then never completes.
C5_BuildCompletes ==
    /\ bld.pc # "assert_failed"
    /\ bld.pc = "rows_raised" => ~AidsFit
    /\ bld.pc = "done" => (AidsFit /\ Size(bld.rows) = odfa.num_states)
    /\ bld.pc = "stream" => Size(bld.rows) < odfa.num_states
    /\ Yielding => RowsWellSized

C5_Witness ==
    /\ bld.pc = "done" /\ odfa.num_states = 3
    /\ \E st \in DOMAIN odfa.rows : \E c \in DOMAIN odfa.rows[st] :
         odfa.rows[st][c].attack_id = Pow2(bld.params.aid_bits) - 1
    /\ \E st \in DOMAIN odfa.rows : Size(odfa.rows[st]) = 0


\* C23: the permutation published by build_gdfa_stream is a bijection on
\* [0, num_states), the secret inverse satisfies inv_perm[perm[i]] = i for every i,
\* and the published start_row is inv_perm[start_state].
C23_PermutationBijective ==
    Yielding =>
        LET perm == bld.public.permutation
            inv_perm == bld.secrets.inv_permutation
            n == odfa.num_states
        IN  /\ bld.public.num_states = n
            /\ DOMAIN perm = 0..(n - 1) /\ DOMAIN inv_perm = 0..(n - 1)
            /\ \A i \in 0..(n - 1) : perm[i] \in 0..(n - 1)
            /\ \A i, k \in 0..(n - 1) : perm[i] = perm[k] => i = k
            /\ \A v \in 0..(n - 1) : \E i \in 0..(n - 1) : perm[i] = v
            /\ \A i \in 0..(n - 1) : inv_perm[perm[i]] = i
            /\ bld.public.start_row = inv_perm[odfa.start_state]
            /\ perm[bld.public.start_row] = odfa.start_state

\* a stream was built over three states with a permutation that moves the start state
C23_Witness ==
    /\ bld.pc = "stream" /\ odfa.num_states = 3
    /\ bld.public.permutation # [i \in 0..2 |-> i]
    /\ bld.public.start_row # odfa.start_state


\* C25: for every parameter configuration accepted by make_packing and
\* plan_cell_format, the built header has cell_bytes * 8 = gdfa_cell_pad_bits =
\* outmax * kprime_bits and row_bytes = outmax * cell_bytes, and the cell format has
\* ns_bits + aid_bits + pad_bits = gdfa_cell_pad_bits with pad_bits >= 0.
C25_HeaderSizes ==
    Yielding =>
        /\ bld.public.cell_bytes * 8 = bld.pack.gdfa_cell_pad_bits
        /\ bld.pack.gdfa_cell_pad_bits = bld.params.outmax * bld.params.kprime_bits
        /\ bld.public.row_bytes = bld.public.outmax * bld.public.cell_bytes
        /\ bld.public.outmax = bld.params.outmax
        /\ bld.fmt.ns_bits + bld.fmt.aid_bits + bld.fmt.pad_bits = bld.pack.gdfa_cell_pad_bits
        /\ bld.fmt.pad_bits >= 0

\* headers were built for cells of two bytes with padding bits left over
C25_Witness ==
    /\ bld.pc = "stream" /\ bld.public.cell_bytes = 2 /\ bld.fmt.pad_bits > 0
    /\ bld.public.row_bytes = bld.params.outmax * 2

\* the (ns, aid) pairs that fit the fields of a planned format
Packable(fmt) == (0..(Pow2(fmt.ns_bits) - 1)) \X (0..(Pow2(fmt.aid_bits) - 1))

\* C37: for every header build_gdfa_stream produces, the cell format derived from the
\* public header (num_states, aid_bits, cell_bytes) by gdfa_evaluator and by
\* ot_pad_oracle has the ns_bits, aid_bits and pad_bits the builder planned with
\* plan_cell_format, and unpacking under it any cell the builder's _pack_bits packed
\* returns the packed (ns, aid).
C37_ClientFormatIsPlan ==
    Yielding =>
      \E client \in {DeriveCellFormat(bld.public)},
         oracle \in {OracleCellFormat(bld.public)} :
        /\ client.ok /\ oracle.ok
        /\ client.ns_bits = bld.fmt.ns_bits /\ oracle.ns_bits = bld.fmt.ns_bits
        /\ client.aid_bits = bld.fmt.aid_bits /\ oracle.aid_bits = bld.fmt.aid_bits
        /\ client.pad_bits = bld.fmt.pad_bits /\ oracle.pad_bits = bld.fmt.pad_bits
        /\ oracle.cell_bits = TotalBits(bld.fmt)
        /\ oracle.cell_bytes = bld.public.cell_bytes
        /\ \A pair \in Packable(bld.fmt) :
             \E packed \in {PackBits(pair[1], pair[2], bld.fmt)} :
               /\ packed.ok
               /\ Len(packed.bytes) = TotalBytes(client)
               /\ UnpackCell(packed.bytes, client) = [ns |-> pair[1], aid |-> pair[2]]

C37_Witness ==
    /\ bld.pc = "done" /\ odfa.num_states = 2
    /\ bld.fmt.ns_bits = 1 /\ bld.fmt.aid_bits = 7 /\ bld.fmt.pad_bits = 0
    /\ DeriveCellFormat(bld.public).pad_bits = 0
    /\ UnpackCell(PackBits(1, 127, bld.fmt).bytes, OracleCellFormat(bld.public)) =
         [ns |-> 1, aid |-> 127]

-----------------------------------------------------------------------------
(* Per-row OT plan and the OT pad oracle (test/unit/test_online_ot_eval.py) *)
(* The rows are built and queried one at a time: derive_for_row(row_id, x) *)
(* reads only the ciphertext row row_id and the token of that row's table. *)

OtAlphabet == 2

OtAidBitsChoices == {8, 14}

\* the rows that are built and queried; row 2 holds the cell with attack id 9
OtRowChoices == {0, 2}

\* outcomes of os.urandom(kprime_bytes) for group keys and padding blocks
KeyChoices == {<<17>>, <<42>>}

\* the column lists a symbol is given, the last one not strictly increasing
ColListChoices == {List(<<>>), List(<<0>>), List(<<1>>), List(<<0, 1>>), List(<<1, 0>>)}

OtParams == Params(8, 8, EvOutmax, EvCmax, 8, <<>>)

OtPack == MakePacking(OtParams)

OtPub(aid_bits) ==
    [EvPub EXCEPT !.cell_bytes = CeilDiv(OtPack.gdfa_cell_pad_bits, 8),
                  !.row_bytes = EvOutmax * CeilDiv(OtPack.gdfa_cell_pad_bits, 8),
                  !.aid_bits = aid_bits]

\* the synthetic transitions of the test: row 2, column 0 carries attack id 9
OtTransitions ==
    EvTransitions([r \in EvRows |-> [c \in EvCols |-> IF r = 2 /\ c = 0 THEN 9 ELSE 0]])

\* RowAlphabet.sanity_check of the response builder, over the modelled alphabet
AlphaSane(alpha, outmax, cmax) ==
    /\ Size(alpha) = OtAlphabet
    /\ \A x \in DOMAIN alpha :
         /\ Size(alpha[x]) <= cmax
         /\ \A k \in DOMAIN alpha[x] :
              /\ 0 <= alpha[x][k] /\ alpha[x][k] < outmax
              /\ k > 0 => alpha[x][k] > alpha[x][k - 1]

\* derive_seed_from_gk: PRF(gk, "ZIDS|SEED|row=" I2OSP(row,4) "|col=" I2OSP(col,2), k_bytes)
DeriveSeedFromGk(gk, row_id, col, k_bytes) ==
    PrfMsg(gk, AsciiSeedRow \o I2OSP(row_id, 4) \o AsciiCol \o I2OSP(col, 2), k_bytes)

\* derive_pad_from_gk
DerivePadFromGk(gk, row_id, col, k_bytes, cell_bits) ==
    GBits(DeriveSeedFromGk(gk, row_id, col, k_bytes), cell_bits, AsciiGdfaCell)

\* label_prefix = b"OT256|row="
AsciiOt256Row == <<79, 84, 50, 53, 54, 124, 114, 111, 119, 61>>

\* the label of a RowOTPlan: label_prefix + i2osp(row_id, 4)
PlanLabel(row_id) == AsciiOt256Row \o I2OSP(row_id, 4)

\* a table entry that is filled up with the group keys of the columns in order
TableEntryAllKeys(cols, gk_by_col, blocks, cmax) ==
    LET n == Max(Size(cols), cmax)
    IN  JoinRows([k \in 0..(n - 1) |->
                    IF k < Size(cols) THEN gk_by_col[cols[k]] ELSE gk_by_col[k % Size(gk_by_col)]],
                 n)

\* a table entry without the padding blocks
TableEntryUnpadded(cols, gk_by_col, blocks, cmax) ==
    JoinRows([k \in 0..(Size(cols) - 1) |-> gk_by_col[cols[k]]], Size(cols))

\* build_row_ot_plan, one table entry: the group keys of the symbol's columns in the
\* order of sym_to_cols[x], then random blocks up to cmax
TableEntry(cols, gk_by_col, blocks, cmax) ==
    LET n == Max(Size(cols), cmax)
    IN  JoinRows([k \in 0..(n - 1) |-> IF k < Size(cols) THEN gk_by_col[cols[k]] ELSE blocks[k]],
                 n)

PackInfoNoCol(row_id, col) == AsciiSeedRow \o I2OSP(row_id, 4) \o AsciiCol \o I2OSP(0, 2)

\* _pack_info of the client oracle
PackInfo(row_id, col) == AsciiSeedRow \o I2OSP(row_id, 4) \o AsciiCol \o I2OSP(col, 2)

\* a candidate that is checked for its padding bits alone
CandidateAnyNs(row_id, c, gk, enc_row, p, pack) ==
    LET fmt  == DeriveCellFormat(p)
        ct   == Slice(enc_row, c * p.cell_bytes, c * p.cell_bytes + p.cell_bytes)
        pad_c == GBits(PrfMsg(gk, PackInfo(row_id, c), pack.k_bytes),
                       p.cell_bytes * 8, AsciiGdfaCell)
        v    == FromBytesBE(XorBytes(ct, pad_c))
    IN  [pad |-> pad_c, valid |-> AndInt(v, Pow2(fmt.pad_bits) - 1) = 0]

\* the oracle's candidate for column c and key gk: the pad and whether the plaintext
\* has zero low pad_bits and a next state in range
Candidate(row_id, c, gk, enc_row, p, pack) ==
    LET fmt  == DeriveCellFormat(p)
        ct   == Slice(enc_row, c * p.cell_bytes, c * p.cell_bytes + p.cell_bytes)
        pad_c == GBits(PrfMsg(gk, PackInfo(row_id, c), pack.k_bytes),
                       p.cell_bytes * 8, AsciiGdfaCell)
        v    == FromBytesBE(XorBytes(ct, pad_c))
        ns   == ((v \div Pow2(fmt.pad_bits)) \div Pow2(fmt.aid_bits)) % Pow2(fmt.ns_bits)
    IN  [pad |-> pad_c,
         valid |-> AndInt(v, Pow2(fmt.pad_bits) - 1) = 0 /\ 0 <= ns /\ ns < p.num_states]

\* a search that runs over the keys of the token first and the columns second
DeriveScanKeysFirst(row_id, c, i, gks, enc_row, p, pack) ==
    LET pairs == {q \in (0..(p.outmax - 1)) \X (0..(pack.cmax - 1)) :
                    Candidate(row_id, q[1], gks[q[2]], enc_row, p, pack).valid}
        rank(q) == q[2] * p.outmax + q[1]
    IN  IF pairs = {}
        THEN [ok |-> FALSE, err |-> "no_valid", col |-> -1, pad |-> <<>>,
              tried |-> p.outmax * pack.cmax]
        ELSE LET best == CHOOSE q \in pairs : \A o \in pairs : rank(q) <= rank(o)
             IN  [ok |-> TRUE, err |-> "", col |-> best[1],
                  pad |-> Candidate(row_id, best[1], gks[best[2]], enc_row, p, pack).pad,
                  tried |-> best[1] * pack.cmax + best[2] + 1]

\* a search that hands back the first candidate when none is well formed
DeriveScanNeverFails(row_id, c, i, gks, enc_row, p, pack) ==
    LET pairs == {q \in (0..(p.outmax - 1)) \X (0..(pack.cmax - 1)) :
                    Candidate(row_id, q[1], gks[q[2]], enc_row, p, pack).valid}
        rank(q) == q[1] * pack.cmax + q[2]
        best == IF pairs = {} THEN <<0, 0>>
                ELSE CHOOSE q \in pairs : \A o \in pairs : rank(q) <= rank(o)
    IN  [ok |-> TRUE, err |-> "", col |-> best[1],
         pad |-> Candidate(row_id, best[1], gks[best[2]], enc_row, p, pack).pad,
         tried |-> rank(best) + 1]

\* the search of derive_for_row: columns in increasing order, within a column the
\* keys of the token in increasing order, the first valid candidate wins
RECURSIVE DeriveScan(_, _, _, _, _, _, _)
DeriveScan(row_id, c, i, gks, enc_row, p, pack) ==
    IF c >= p.outmax
    THEN [ok |-> FALSE, err |-> "no_valid", col |-> -1, pad |-> <<>>,
          tried |-> p.outmax * pack.cmax]
    ELSE IF i >= pack.cmax THEN DeriveScan(row_id, c + 1, 0, gks, enc_row, p, pack)
    ELSE LET cand == Candidate(row_id, c, gks[i], enc_row, p, pack)
         IN  IF cand.valid
             THEN [ok |-> TRUE, err |-> "", col |-> c, pad |-> cand.pad,
                   tried |-> c * pack.cmax + i + 1]
             ELSE DeriveScan(row_id, c, i + 1, gks, enc_row, p, pack)

\* OTPadOracle.derive_for_row on the token the source returned: err names the
\* ValueError raised, tried counts the candidate keys the search derived a pad from
DeriveForRow(row_id, token, enc_row, p, pack) ==
    IF ~DeriveCellFormat(p).ok
    THEN [ok |-> FALSE, err |-> "cell_format", col |-> -1, pad |-> <<>>, tried |-> 0]
    ELSE IF Len(token) # pack.cmax * pack.kprime_bytes
    THEN [ok |-> FALSE, err |-> "token_length", col |-> -1, pad |-> <<>>, tried |-> 0]
    ELSE DeriveScan(row_id, 0, 0,
                    [i \in 0..(pack.cmax - 1) |->
                        Slice(token, i * pack.kprime_bytes, (i + 1) * pack.kprime_bytes)],
                    enc_row, p, pack)

OtInit ==
    /\ \E ab \in OtAidBitsChoices : pub = OtPub(ab)
    /\ plain = OtTransitions
    /\ \E r \in OtRowChoices, alpha \in [0..(OtAlphabet - 1) -> ColListChoices] :
         ot = [pc |-> "new", row_id |-> r, alpha |-> alpha]
    /\ store = <<>> /\ pads = <<>> /\ ev = <<>> /\ odfa = <<>> /\ bld = <<>> /\ fs = <<>>

\* build_row_ot_plan for the row, then its ciphertext row with pads derived from the
\* row's group keys
OtBuildRow ==
    /\ ot.pc = "new"
    /\ IF ~AlphaSane(ot.alpha, EvOutmax, EvCmax)
       THEN /\ ot' = [ot EXCEPT !.pc = "plan_raised"]
            /\ UNCHANGED store
       ELSE \E gk_by_col \in [EvCols -> KeyChoices],
               blocks \in [DOMAIN ot.alpha -> [0..(EvCmax - 1) -> KeyChoices]] :
               /\ \A x \in DOMAIN ot.alpha : \A k \in 0..(EvCmax - 1) :
                     k < Size(ot.alpha[x]) => blocks[x][k] = <<17>>
               /\ LET r == ot.row_id
                      pd == [q \in {r} |-> [c \in EvCols |->
                               DerivePadFromGk(gk_by_col[c], r, c, OtPack.k_bytes,
                                               pub.cell_bytes * 8)]]
                  IN  /\ ot' = [pc |-> "built", row_id |-> r, alpha |-> ot.alpha,
                                gk_by_col |-> gk_by_col,
                                table |-> [x \in DOMAIN ot.alpha |->
                                    TableEntry(ot.alpha[x], gk_by_col, blocks[x], EvCmax)],
                                label |-> PlanLabel(r), blocks |-> blocks,
                                x |-> -1, answer |-> <<>>]
                      /\ store' = [q \in {r} |-> ForgeRow(plain, pd, r, pub)]
    /\ UNCHANGED <<pub, pads, plain, ev, odfa, bld, fs>>

\* derive_for_row(row_id, x) with the token the 1-of-256 OT delivers for x; the call
\* keeps no state, so one call per built row covers every call
OtDerive ==
    /\ ot.pc = "built"
    /\ \E x \in DOMAIN ot.alpha :
         ot' = [ot EXCEPT !.pc = "derived", !.x = x,
                          !.answer = DeriveForRow(ot.row_id, ot.table[x],
                                                  store[ot.row_id], pub, OtPack)]
    /\ UNCHANGED <<pub, store, pads, plain, ev, odfa, bld, fs>>

OtNext == OtBuildRow \/ OtDerive

SpecOT == OtInit /\ [][OtNext]_vars

-----------------------------------------------------------------------------
(* Properties of the OT pad oracle                                         *)

\* the pad the server encrypted cell (row, c) with
TruePad(c) ==
    DerivePadFromGk(ot.gk_by_col[c], ot.row_id, c, OtPack.k_bytes, pub.cell_bytes * 8)

ColsOf(x) == {ot.alpha[x][k] : k \in DOMAIN ot.alpha[x]}

TokenKeys(x) == {Slice(ot.table[x], i, i + 1) : i \in 0..(EvCmax - 1)}

\* some key of the token for x decrypts a column below c to a well-formed plaintext
FalsePositiveBelow(x, c) ==
    \E c0 \in 0..(c - 1) : \E gk \in TokenKeys(x) :
        Candidate(ot.row_id, c0, gk, store[ot.row_id], pub, OtPack).valid

\* C3 as stated: for every symbol x with a non-empty sym_to_cols[x],
\* derive_for_row(r, x) returns a column of sym_to_cols[x] and that cell's true pad.
C3_AsStated ==
    (ot.pc = "derived" /\ ColsOf(ot.x) # {}) =>
        /\ ot.answer.ok
        /\ ot.answer.col \in ColsOf(ot.x)
        /\ ot.answer.pad = TruePad(ot.answer.col)

\* C3 amended: derive_for_row(r, x) never fails for such x, and it returns the lowest
\* column of sym_to_cols[x] with that cell's true pad, whose plaintext is the
\* automaton's transition, whenever no key of the token decrypts a lower-numbered
\* column's cell to a well-formed plaintext.
C3_OracleFindsColumn ==
    (ot.pc = "derived" /\ ColsOf(ot.x) # {}) =>
        /\ ot.answer.ok
        /\ ~FalsePositiveBelow(ot.x, ot.alpha[ot.x][0]) =>
             /\ ot.answer.col = ot.alpha[ot.x][0]
             /\ ot.answer.pad = TruePad(ot.answer.col)
             /\ UnpackCell(XorBytes(Slice(store[ot.row_id],
                                          ot.answer.col * pub.cell_bytes,
                                          (ot.answer.col + 1) * pub.cell_bytes),
                                    ot.answer.pad),
                           DeriveCellFormat(pub))
                = plain[ot.row_id][ot.answer.col]

C3_Witness ==
    /\ ot.pc = "derived" /\ ColsOf(ot.x) = {1}
    /\ DeriveCellFormat(pub).pad_bits > 0
    /\ ~FalsePositiveBelow(ot.x, 1)
    /\ ot.answer.ok /\ ot.answer.col = 1
    /\ ot.answer.pad = TruePad(1)
    /\ ot.row_id = 2

\* the search of derive_for_row on the row that holds the attack cell: the call reads
\* the header, the token and the ciphertext row of row_id only
ScanInit ==
    /\ \E ab \in OtAidBitsChoices : pub = OtPub(ab)
    /\ plain = OtTransitions
    /\ \E alpha \in [0..(OtAlphabet - 1) -> ColListChoices] :
         ot = [pc |-> "new", row_id |-> 2, alpha |-> alpha]
    /\ store = <<>> /\ pads = <<>> /\ ev = <<>> /\ odfa = <<>> /\ bld = <<>> /\ fs = <<>>

SpecScan == ScanInit /\ [][OtNext]_vars

\* the i-th candidate key of the token delivered for the queried symbol
TokenKey(i) ==
    Slice(ot.table[ot.x], i * OtPack.kprime_bytes, (i + 1) * OtPack.kprime_bytes)

\* the (column, key index) pairs whose decrypted cell is well formed
ValidPairs ==
    {q \in EvCols \X (0..(EvCmax - 1)) :
        Candidate(ot.row_id, q[1], TokenKey(q[2]), store[ot.row_id], pub, OtPack).valid}

\* q comes before o in the documented order: increasing column, then increasing key
Earlier(q, o) == q[1] < o[1] \/ (q[1] = o[1] /\ q[2] < o[2])

\* C30: derive_for_row returns the first pair, scanning the columns 0..outmax-1 in
\* increasing order and within each column the token's candidate keys in increasing
\* index order, whose decrypted cell has all low pad_bits zero and an ns field in
\* [0, num_states); a later pair is never returned when an earlier one validates.
C30_FirstValidPairWins ==
    (ot.pc = "derived" /\ Len(ot.table[ot.x]) = OtPack.cmax * OtPack.kprime_bytes) =>
        \E valid \in {ValidPairs} :
            IF valid = {}
            THEN ~ot.answer.ok /\ ot.answer.err = "no_valid"
            ELSE \E q \in valid :
                   /\ \A o \in valid : o = q \/ Earlier(q, o)
                   /\ ot.answer.ok
                   /\ ot.answer.col = q[1]
                   /\ ot.answer.tried = q[1] * EvCmax + q[2] + 1
                   /\ ot.answer.pad =
                        Candidate(ot.row_id, q[1], TokenKey(q[2]), store[ot.row_id],
                                  pub, OtPack).pad

\* the second key opens column 0 and the first key opens column 1, the first key
\* does not open column 0: column 0 is returned with the second key's pad
C30_Witness ==
    /\ ot.pc = "derived" /\ ot.answer.ok
    /\ <<0, 1>> \in ValidPairs /\ <<1, 0>> \in ValidPairs /\ <<0, 0>> \notin ValidPairs
    /\ ot.answer.col = 0 /\ ot.answer.tried = 2
    /\ ot.answer.pad = TruePad(0)

-----------------------------------------------------------------------------
(* Single-file container: the two writers and load_gdfa_container         *)

\* _MAGIC = b"ZIDSv1\0"
MAGIC == <<90, 73, 68, 83, 118, 49, 0>>

\* the loader compares data[:8] with _MAGIC, reads header_len from data[8:12] and the
\* header from offset 12; the trailer is a raw SHA-256 digest
LoaderMagicEnd == 8
LoaderHeaderPos == 12
TrailerLen == HashLen

\* _REQUIRED_FIELDS, as ASCII
\*   1: "alphabet_size"
\*   2: "outmax"
\*   3: "cmax"
\*   4: "num_states"
\*   5: "start_row"
\*   6: "permutation"
\*   7: "cell_bytes"
\*   8: "row_bytes"
\*   9: "aid_bits"
REQUIRED_FIELDS ==
    << <<97, 108, 112, 104, 97, 98, 101, 116, 95, 115, 105, 122, 101>>,
       <<111, 117, 116, 109, 97, 120>>,
       <<99, 109, 97, 120>>,
       <<110, 117, 109, 95, 115, 116, 97, 116, 101, 115>>,
       <<115, 116, 97, 114, 116, 95, 114, 111, 119>>,
       <<112, 101, 114, 109, 117, 116, 97, 116, 105, 111, 110>>,
       <<99, 101, 108, 108, 95, 98, 121, 116, 101, 115>>,
       <<114, 111, 119, 95, 98, 121, 116, 101, 115>>,
       <<97, 105, 100, 95, 98, 105, 116, 115>> >>

IntVal(n) == [list |-> FALSE, val |-> n]
ListVal(f) == [list |-> TRUE, val |-> f]
StrVal(s) == [list |-> FALSE, str |-> TRUE, val |-> s]

\* the header dict both writers build, as (key, value) pairs in insertion order
HeaderItems(p) ==
    << <<REQUIRED_FIELDS[1], IntVal(p.alphabet_size)>>,
       <<REQUIRED_FIELDS[2], IntVal(p.outmax)>>,
       <<REQUIRED_FIELDS[3], IntVal(p.cmax)>>,
       <<REQUIRED_FIELDS[4], IntVal(p.num_states)>>,
       <<REQUIRED_FIELDS[5], IntVal(p.start_row)>>,
       <<REQUIRED_FIELDS[6], ListVal(p.permutation)>>,
       <<REQUIRED_FIELDS[7], IntVal(p.cell_bytes)>>,
       <<REQUIRED_FIELDS[8], IntVal(p.row_bytes)>>,
       <<REQUIRED_FIELDS[9], IntVal(p.aid_bits)>> >>

\* str(n) of a non-negative integer, as ASCII
RECURSIVE Decimal(_)
Decimal(n) == IF n < 10 THEN <<48 + n>> ELSE Decimal(n \div 10) \o <<48 + (n % 10)>>

\* sep.join(list) for a list given as a function over 0..n-1
RECURSIVE JoinWith(_, _, _)
JoinWith(f, n, sep) ==
    IF n = 0 THEN <<>>
    ELSE IF n = 1 THEN f[0]
    ELSE JoinWith(f, n - 1, sep) \o sep \o f[n - 1]

\* json.dumps of an integer or a list of integers with separators (",", ":")
DumpValue(v) ==
    IF v.list
    THEN <<91>> \o JoinWith([i \in DOMAIN v.val |-> Decimal(v.val[i])], Size(v.val), <<44>>)
         \o <<93>>
    ELSE Decimal(v.val)

\* json.dumps(header, separators=(",", ":")).encode("utf-8")
JsonDumps(items) ==
    <<123>>
    \o JoinWith([k \in 0..(Len(items) - 1) |->
                    <<34>> \o items[k + 1][1] \o <<34, 58>> \o DumpValue(items[k + 1][2])],
                Len(items), <<44>>)
    \o <<125>>

\* a decimal literal of JSON: digits, no leading zero
DecimalOk(s) ==
    /\ Len(s) >= 1
    /\ \A i \in 1..Len(s) : 48 <= s[i] /\ s[i] <= 57
    /\ Len(s) > 1 => s[1] # 48

RECURSIVE DecimalValue(_)
DecimalValue(s) ==
    IF Len(s) = 0 THEN 0
    ELSE 10 * DecimalValue(SubSeq(s, 1, Len(s) - 1)) + (s[Len(s)] - 48)

\* the pieces of s between the separator positions seps, in order
Split(s, seps) ==
    LET cuts   == {0} \cup seps \cup {Len(s) + 1}
        starts == cuts \ {Len(s) + 1}
        nth(k) == CHOOSE a \in starts : Cardinality({b \in starts : b < a}) = k
        stop(a) == CHOOSE b \in cuts : b > a /\ \A e \in cuts : e > a => b <= e
    IN  [k \in 0..(Cardinality(starts) - 1) |-> SubSeq(s, nth(k) + 1, stop(nth(k)) - 1)]

\* the commas of s outside any [...]
TopCommas(s) ==
    {i \in 1..Len(s) :
        /\ s[i] = 44
        /\ Cardinality({j \in 1..(i - 1) : s[j] = 91})
           = Cardinality({j \in 1..(i - 1) : s[j] = 93})}

\* a JSON value of the header: an integer or a list of integers
ParseValue(s) ==
    IF Len(s) >= 2 /\ s[1] = 91 /\ s[Len(s)] = 93
    THEN LET inner == SubSeq(s, 2, Len(s) - 1)
             parts == Split(inner, {i \in 1..Len(inner) : inner[i] = 44})
         IN  IF Len(inner) = 0 THEN [ok |-> TRUE, v |-> ListVal(List(<<>>))]
             ELSE IF \A k \in DOMAIN parts : DecimalOk(parts[k])
             THEN [ok |-> TRUE, v |-> ListVal([k \in DOMAIN parts |-> DecimalValue(parts[k])])]
             ELSE [ok |-> FALSE]
    ELSE IF DecimalOk(s) THEN [ok |-> TRUE, v |-> IntVal(DecimalValue(s))]
    ELSE IF /\ Len(s) >= 2 /\ s[1] = 34 /\ s[Len(s)] = 34
            /\ \A i \in 2..(Len(s) - 1) : s[i] \notin {34, 92}
    THEN [ok |-> TRUE, v |-> StrVal(SubSeq(s, 2, Len(s) - 1))]
    ELSE [ok |-> FALSE]

\* one "key":value member
ParseMember(mb) ==
    LET quotes == {j \in 2..Len(mb) : mb[j] = 34}
        q == CHOOSE j \in quotes : \A e \in quotes : j <= e
    IN  IF Len(mb) < 4 \/ mb[1] # 34 \/ quotes = {} THEN [ok |-> FALSE]
        ELSE IF q + 1 > Len(mb) \/ mb[q + 1] # 58 THEN [ok |-> FALSE]
        ELSE LET pv == ParseValue(SubSeq(mb, q + 2, Len(mb)))
             IN  IF pv.ok THEN [ok |-> TRUE, key |-> SubSeq(mb, 2, q - 1), v |-> pv.v]
                 ELSE [ok |-> FALSE]

IsNotWs(b) == b \notin {9, 10, 13, 32}

\* the text without the whitespace JSON allows between tokens; the strings of a header
\* (field names, a hex digest) hold no whitespace
StripWs(text) == SelectSeq(text, IsNotWs)

\* json.loads(text.decode("utf-8")) for an object whose members are integers, lists of
\* integers and plain strings; any other text the model feeds it is not JSON
JsonLoads(raw) ==
    LET text == StripWs(raw)
    IN
    IF Len(text) < 2 \/ text[1] # 123 \/ text[Len(text)] # 125 THEN [ok |-> FALSE]
    ELSE IF Len(text) = 2 THEN [ok |-> TRUE, obj |-> <<>>]
    ELSE LET inner == SubSeq(text, 2, Len(text) - 1)
             mbs   == Split(inner, TopCommas(inner))
             pm    == [k \in DOMAIN mbs |-> ParseMember(mbs[k])]
             last(key) == CHOOSE k \in DOMAIN pm :
                             /\ pm[k].key = key
                             /\ \A e \in DOMAIN pm : pm[e].key = key => e <= k
         IN  IF \E k \in DOMAIN pm : ~pm[k].ok THEN [ok |-> FALSE]
             ELSE [ok |-> TRUE,
                   obj |-> [key \in {pm[k].key : k \in DOMAIN pm} |-> pm[last(key)].v]]

Raised(kind) == [ok |-> FALSE, err |-> kind]

\* _to_pub: the header record, or the ValueError (TypeError for int() of a list)
ToPub(d) ==
    LET f(k) == d[REQUIRED_FIELDS[k]]
    IN  IF \E k \in 1..Len(REQUIRED_FIELDS) : REQUIRED_FIELDS[k] \notin DOMAIN d
        THEN Raised("missing_fields")
        ELSE IF ~f(6).list THEN Raised("permutation_not_list")
        ELSE IF \E k \in (1..Len(REQUIRED_FIELDS)) \ {6} : f(k).list THEN Raised("type_error")
        ELSE IF Size(f(6).val) # f(4).val THEN Raised("permutation_length")
        ELSE IF ~(0 <= f(5).val /\ f(5).val < f(4).val) THEN Raised("start_row_range")
        ELSE [ok |-> TRUE,
              pub |-> [alphabet_size |-> f(1).val, outmax |-> f(2).val, cmax |-> f(3).val,
                       num_states |-> f(4).val, start_row |-> f(5).val,
                       permutation |-> f(6).val, cell_bytes |-> f(7).val,
                       row_bytes |-> f(8).val, aid_bits |-> f(9).val]]

MagicOkLengthOnly(data) == Len(data) >= LoaderHeaderPos

\* not (len(data) < 12 or data[:8] != _MAGIC)
MagicOk(data) == Len(data) >= LoaderHeaderPos /\ Slice(data, 0, LoaderMagicEnd) = MAGIC

\* load_gdfa_container(path, verify_sha256=verify) on a file holding data
LoadGdfaContainer(data, verify) ==
    IF ~MagicOk(data) THEN Raised("bad_magic")
    ELSE
    LET header_len == FromBytesBE(Slice(data, LoaderMagicEnd, LoaderHeaderPos))
        end_hdr    == LoaderHeaderPos + header_len
    IN  IF end_hdr + TrailerLen > Len(data) THEN Raised("header_len")
        ELSE
        LET meta == JsonLoads(Slice(data, LoaderHeaderPos, end_hdr))
        IN  IF ~meta.ok THEN Raised("header_json")
            ELSE
            LET tp == ToPub(meta.obj)
            IN  IF ~tp.ok THEN tp
                ELSE
                LET end_rows == end_hdr + tp.pub.num_states * tp.pub.row_bytes
                    rows_payload == Slice(data, end_hdr, end_rows)
                    trailer_hash == Slice(data, end_rows, end_rows + TrailerLen)
                IN  IF end_rows + TrailerLen > Len(data) THEN Raised("rows_truncated")
                    ELSE IF verify /\ Sha256(rows_payload) # trailer_hash
                    THEN Raised("sha_mismatch")
                    ELSE [ok |-> TRUE, pub |-> tp.pub,
                          rows |-> [i \in 0..(tp.pub.num_states - 1) |->
                                      Slice(rows_payload, i * tp.pub.row_bytes,
                                            (i + 1) * tp.pub.row_bytes)]]

\* the bytes both writers put into the file
ContainerBytes(magic, p, rows_list) ==
    LET hdr_bytes == JsonDumps(HeaderItems(p))
        body      == JoinRows(rows_list, Size(rows_list))
    IN  magic \o ToBytesBE(Len(hdr_bytes), 4) \o hdr_bytes \o body \o Sha256(body)

\* write_gdfa_container: TRUE when its checks raise nothing
WriteGdfaAccepts(p, rows_list) ==
    /\ Size(rows_list) = p.num_states
    /\ \A i \in DOMAIN rows_list : Len(rows_list[i]) = p.row_bytes

\* write_container of the build script: TRUE when its checks raise nothing
WriteCliAccepts(p, rows_list) ==
    /\ \A i \in DOMAIN rows_list : Len(rows_list[i]) = p.row_bytes
    /\ Len(JoinRows(rows_list, Size(rows_list))) = p.num_states * p.row_bytes

MaxFileStates == 2

FileRowBytes == {1, 2}

RowByteChoices == {0, 171}

FlipMasks == {1, 255}

\* a header with num_states = n and row_bytes = rb, its permutation a rotation
FilePub(n, rb) ==
    [alphabet_size |-> 256, outmax |-> rb, cmax |-> 1, num_states |-> n,
     start_row |-> n - 1, permutation |-> [i \in 0..(n - 1) |-> (i + 1) % n],
     cell_bytes |-> 1, row_bytes |-> rb, aid_bits |-> 2]

\* the lists of rows handed to a writer: every list of n rows of rb bytes, a list
\* that is one row short and a list whose first row is one byte too long
RowLists(n, rb) ==
    [0..(n - 1) -> [1..rb -> RowByteChoices]]
    \cup { [i \in 0..(n - 2) |-> [j \in 1..rb |-> 0]],
           [i \in 0..(n - 1) |-> [j \in 1..(IF i = 0 THEN rb + 1 ELSE rb) |-> 0]] }

\* "ZIDSv1\0" followed by one more zero byte: a magic of the 8 bytes the loader compares
DocMagic == MAGIC \o <<0>>

ForeignKinds ==
    {"documented", "other_magic", "short", "empty", "header_overrun", "bad_json",
     "missing_field", "rows_truncated", "bad_hash"}

\* files that no writer of the repository produced
ForeignFile(kind, p, rows_list) ==
    LET hdr  == JsonDumps(HeaderItems(p))
        body == JoinRows(rows_list, Size(rows_list))
        doc  == ContainerBytes(DocMagic, p, rows_list)
    IN  CASE kind = "documented"     -> doc
          [] kind = "other_magic"    -> ContainerBytes(<<88>> \o Tail(DocMagic), p, rows_list)
          [] kind = "short"          -> SubSeq(doc, 1, 10)
          [] kind = "empty"          -> <<>>
          [] kind = "header_overrun" ->
                DocMagic \o ToBytesBE(Len(hdr) + 1000, 4) \o hdr \o body \o Sha256(body)
          [] kind = "bad_json"       ->
                DocMagic \o ToBytesBE(Len(hdr) - 1, 4) \o SubSeq(hdr, 1, Len(hdr) - 1)
                \o body \o Sha256(body)
          [] kind = "missing_field"  ->
                LET h2 == JsonDumps(Tail(HeaderItems(p)))
                IN  DocMagic \o ToBytesBE(Len(h2), 4) \o h2 \o body \o Sha256(body)
          [] kind = "rows_truncated" -> SubSeq(doc, 1, Len(doc) - 1)
          [] kind = "bad_hash"       ->
                DocMagic \o ToBytesBE(Len(hdr), 4) \o hdr \o body \o Sha256(body \o <<1>>)

\* where the rows payload starts in a file a writer produced
PayloadStart(p) == Len(MAGIC) + 4 + Len(JsonDumps(HeaderItems(p)))

FileInit ==
    /\ \E n \in 1..MaxFileStates, rb \in FileRowBytes : \E rows_list \in RowLists(n, rb) :
         fs = [pc |-> "empty", pub |-> FilePub(n, rb), rows |-> rows_list,
               origin |-> "none", writer |-> "none", data |-> <<>>, flip |-> <<>>,
               verify |-> FALSE, out |-> <<>>]
    /\ pub = <<>> /\ store = <<>> /\ pads = <<>> /\ plain = <<>> /\ ev = <<>>
    /\ odfa = <<>> /\ bld = <<>> /\ ot = <<>>

\* write_gdfa_container(path, pub, rows)
WriteGdfaContainer ==
    /\ fs.pc = "empty"
    /\ IF WriteGdfaAccepts(fs.pub, fs.rows)
       THEN fs' = [fs EXCEPT !.pc = "written", !.origin = "written", !.writer = "lib",
                             !.data = ContainerBytes(MAGIC, fs.pub, fs.rows)]
       ELSE fs' = [fs EXCEPT !.pc = "write_raised", !.writer = "lib"]
    /\ UNCHANGED <<pub, store, pads, plain, ev, odfa, bld, ot>>

\* write_container(container_path, pub, rows) of the build script
WriteContainerCli ==
    /\ fs.pc = "empty"
    /\ IF WriteCliAccepts(fs.pub, fs.rows)
       THEN fs' = [fs EXCEPT !.pc = "written", !.origin = "written", !.writer = "cli",
                             !.data = ContainerBytes(MAGIC, fs.pub, fs.rows)]
       ELSE fs' = [fs EXCEPT !.pc = "write_raised", !.writer = "cli"]
    /\ UNCHANGED <<pub, store, pads, plain, ev, odfa, bld, ot>>

\* a file from elsewhere is put at the path
PutForeignFile ==
    /\ fs.pc = "empty"
    /\ WriteGdfaAccepts(fs.pub, fs.rows)
    /\ \E kind \in ForeignKinds :
         fs' = [fs EXCEPT !.pc = "written", !.origin = "foreign", !.writer = kind,
                          !.data = ForeignFile(kind, fs.pub, fs.rows)]
    /\ UNCHANGED <<pub, store, pads, plain, ev, odfa, bld, ot>>

\* one byte of the rows payload of a written container is changed
FlipPayloadByte ==
    /\ fs.pc = "written" /\ fs.origin = "written"
    /\ \E k \in 0..(fs.pub.num_states * fs.pub.row_bytes - 1), mask \in FlipMasks :
         fs' = [fs EXCEPT !.origin = "flipped", !.flip = [off |-> k, mask |-> mask],
                          !.data = [@ EXCEPT ![PayloadStart(fs.pub) + k + 1] =
                                               XorInt(@, mask)]]
    /\ UNCHANGED <<pub, store, pads, plain, ev, odfa, bld, ot>>

\* load_gdfa_container(path, verify_sha256=verify)
LoadContainer ==
    /\ fs.pc = "written"
    /\ \E verify \in BOOLEAN :
         fs' = [fs EXCEPT !.pc = "loaded", !.verify = verify,
                          !.out = LoadGdfaContainer(fs.data, verify)]
    /\ UNCHANGED <<pub, store, pads, plain, ev, odfa, bld, ot>>

FileNext ==
    WriteGdfaContainer \/ WriteContainerCli \/ PutForeignFile \/ FlipPayloadByte
    \/ LoadContainer

SpecFile == FileInit /\ [][FileNext]_vars

-----------------------------------------------------------------------------
(* Properties of the container                                             *)

Loaded == fs.pc = "loaded"

\* the written rows with the changed byte
FlippedRows ==
    [i \in DOMAIN fs.rows |->
        [j \in 1..Len(fs.rows[i]) |->
            IF i * fs.pub.row_bytes + (j - 1) = fs.flip.off
            THEN XorInt(fs.rows[i][j], fs.flip.mask) ELSE fs.rows[i][j]]]

\* C6 as stated: a container written by write_gdfa_container or by the build script's
\* write_container and read back with load_gdfa_container(verify_sha256=True) loads, and
\* the returned header and rows equal the written ones.
C6_RoundTrip ==
    (Loaded /\ fs.origin = "written" /\ fs.verify) =>
        /\ fs.out.ok
        /\ fs.out.pub = fs.pub
        /\ fs.out.rows = fs.rows

\* C7 as stated: after one byte of the rows payload of a written container is changed,
\* load_gdfa_container(verify_sha256=False) does not raise and returns the corrupted
\* rows.
C7_UnverifiedLoadReturnsCorruptedRows ==
    (Loaded /\ fs.origin = "flipped" /\ ~fs.verify) =>
        /\ fs.out.ok
        /\ fs.out.rows = FlippedRows
        /\ fs.out.rows # fs.rows

\* C8 as stated: after one byte of the rows payload of a written container is changed,
\* load_gdfa_container with verification fails with the rows SHA-256 mismatch.
C8_VerifiedLoadReportsMismatch ==
    (Loaded /\ fs.origin = "flipped" /\ fs.verify) =>
        /\ ~fs.out.ok
        /\ fs.out.err = "sha_mismatch"

\* the defects C9 lists, read off the file at the loader's offsets
Defective(data, verify) ==
    LET header_len == FromBytesBE(Slice(data, LoaderMagicEnd, LoaderHeaderPos))
        end_hdr    == LoaderHeaderPos + header_len
        meta       == JsonLoads(Slice(data, LoaderHeaderPos, end_hdr))
        tp         == ToPub(meta.obj)
        end_rows   == end_hdr + tp.pub.num_states * tp.pub.row_bytes
    IN  \/ Slice(data, 0, Len(MAGIC)) # MAGIC
        \/ Len(data) < LoaderHeaderPos
        \/ end_hdr > Len(data)
        \/ ~meta.ok
        \/ \E k \in 1..Len(REQUIRED_FIELDS) : REQUIRED_FIELDS[k] \notin DOMAIN meta.obj
        \/ /\ tp.ok
           /\ \/ end_rows > Len(data)
              \/ /\ verify
                 /\ Slice(data, end_rows, end_rows + TrailerLen)
                    # Sha256(Slice(data, end_hdr, end_rows))

\* C9: load_gdfa_container fails, returning no header and no rows, whenever the file
\* has a wrong magic, is shorter than 12 bytes, declares a header_len or a rows payload
\* running past the end of the file, has a header that is not JSON with all required
\* fields, or (with verification) has a trailer different from the payload's SHA-256.
C9_LoaderRejects ==
    (Loaded /\ Defective(fs.data, fs.verify)) =>
        /\ ~fs.out.ok
        /\ DOMAIN fs.out = {"ok", "err"}

C9_Witness ==
    /\ Loaded /\ fs.origin = "foreign" /\ fs.writer = "other_magic"
    /\ Len(fs.data) > LoaderHeaderPos
    /\ Slice(fs.data, 0, Len(MAGIC)) # MAGIC
    /\ ~fs.out.ok

\* C10 as stated: in the file written by write_gdfa_container bytes 0..7 are the 8-byte
\* magic, bytes 8..11 are header_len (big-endian), the header JSON takes the next
\* header_len bytes from offset 12, then come num_states * row_bytes payload bytes and
\* the 32-byte SHA-256 of the payload; the loader reads the same offsets.
C10_DocumentedLayout ==
    (fs.pc \in {"written", "loaded"} /\ fs.origin = "written" /\ fs.writer = "lib") =>
        LET hdr      == JsonDumps(HeaderItems(fs.pub))
            body     == JoinRows(fs.rows, Size(fs.rows))
            end_hdr  == 12 + Len(hdr)
            end_rows == end_hdr + fs.pub.num_states * fs.pub.row_bytes
        IN  /\ Len(MAGIC) = 8
            /\ Slice(fs.data, 0, 8) = MAGIC
            /\ FromBytesBE(Slice(fs.data, 8, 12)) = Len(hdr)
            /\ Slice(fs.data, 12, end_hdr) = hdr
            /\ Slice(fs.data, end_hdr, end_rows) = body
            /\ Slice(fs.data, end_rows, end_rows + 32) = Sha256(body)
            /\ Len(fs.data) = end_rows + 32
            /\ LoaderMagicEnd = Len(MAGIC) /\ LoaderHeaderPos = Len(MAGIC) + 4

-----------------------------------------------------------------------------
(* Two-file format: write_twofile and load_gdfa_from_files                 *)

\* "rows_sha256"
AsciiRowsSha256 == <<114, 111, 119, 115, 95, 115, 104, 97, 50, 53, 54>>

\* bytes.hex(): two lowercase hex digits per byte
HexDigit(n) == IF n < 10 THEN 48 + n ELSE 87 + n

HexDigest(b) ==
    [i \in 1..(2 * Len(b)) |->
        IF i % 2 = 1 THEN HexDigit(b[(i + 1) \div 2] \div 16) ELSE HexDigit(b[i \div 2] % 16)]

\* the header dict of write_twofile in the order sort_keys=True gives it
TwoFileItems(p, rows_blob) ==
    << <<REQUIRED_FIELDS[9], IntVal(p.aid_bits)>>,
       <<REQUIRED_FIELDS[1], IntVal(p.alphabet_size)>>,
       <<REQUIRED_FIELDS[7], IntVal(p.cell_bytes)>>,
       <<REQUIRED_FIELDS[3], IntVal(p.cmax)>>,
       <<REQUIRED_FIELDS[4], IntVal(p.num_states)>>,
       <<REQUIRED_FIELDS[2], IntVal(p.outmax)>>,
       <<REQUIRED_FIELDS[6], ListVal(p.permutation)>>,
       <<REQUIRED_FIELDS[8], IntVal(p.row_bytes)>>,
       <<AsciiRowsSha256, StrVal(HexDigest(Sha256(rows_blob)))>>,
       <<REQUIRED_FIELDS[5], IntVal(p.start_row)>> >>

\* json.dumps of a member value at nesting level 1 with indent=2
DumpValueIndented(v) ==
    IF "str" \in DOMAIN v THEN <<34>> \o v.val \o <<34>>
    ELSE IF v.list
    THEN IF Size(v.val) = 0 THEN <<91, 93>>
         ELSE <<91, 10, 32, 32, 32, 32>>
              \o JoinWith([i \in DOMAIN v.val |-> Decimal(v.val[i])], Size(v.val),
                          <<44, 10, 32, 32, 32, 32>>)
              \o <<10, 32, 32, 93>>
    ELSE Decimal(v.val)

\* json.dumps(header_obj, indent=2, sort_keys=True).encode("utf-8")
JsonDumpsIndented(items) ==
    <<123, 10, 32, 32>>
    \o JoinWith([k \in 0..(Len(items) - 1) |->
                    <<34>> \o items[k + 1][1] \o <<34, 58, 32>>
                    \o DumpValueIndented(items[k + 1][2])],
                Len(items), <<44, 10, 32, 32>>)
    \o <<10, 125>>

\* the gzip member check value, 2 bytes here
GzipCheck(data) == ToBytesBE(Absorb(3, data), 2)

\* gzip.open(path, "wb").write(data): the deflate stream is replaced by the data
\* framed with the gzip magic 1f 8b, the method byte and a check value
GzipFrame(data) == <<31, 139, 8>> \o data \o GzipCheck(data)

\* gzip.open(f, "rb").read(): the data, or an error for a stream that is no gzip member
Gunzip(b) ==
    IF Len(b) >= 5 /\ SubSeq(b, 1, 3) = <<31, 139, 8>>
       /\ SubSeq(b, Len(b) - 1, Len(b)) = GzipCheck(SubSeq(b, 4, Len(b) - 2))
    THEN [ok |-> TRUE, data |-> SubSeq(b, 4, Len(b) - 2)]
    ELSE Raised("gzip_error")

\* _read_maybe_gz: a file that starts with 1f 8b is read through gzip
ReadMaybeGz(b) ==
    IF Len(b) >= 2 /\ b[1] = 31 /\ b[2] = 139 THEN Gunzip(b) ELSE [ok |-> TRUE, data |-> b]

\* write_twofile: TRUE when its checks raise nothing
WriteTwofileAccepts(p, rows_list) ==
    /\ \A i \in DOMAIN rows_list : Len(rows_list[i]) = p.row_bytes
    /\ Len(JoinRows(rows_list, Size(rows_list))) = p.num_states * p.row_bytes

\* the header file write_twofile writes
TwofileHeader(p, rows_list, gzip_header) ==
    LET header_bytes ==
            JsonDumpsIndented(TwoFileItems(p, JoinRows(rows_list, Size(rows_list))))
    IN  IF gzip_header THEN GzipFrame(header_bytes) ELSE header_bytes

\* load_gdfa_from_files(header_json_path, rows_bin_path, verify_sha256=verify)
LoadGdfaFromFiles(header_file, rows_file, verify) ==
    LET hb == ReadMaybeGz(header_file)
    IN  IF ~hb.ok THEN hb
        ELSE
        LET meta == JsonLoads(hb.data)
        IN  IF ~meta.ok THEN Raised("header_json")
            ELSE
            LET tp == ToPub(meta.obj)
                rf == ReadMaybeGz(rows_file)
            IN  IF ~tp.ok THEN tp
                ELSE IF ~rf.ok THEN rf
                ELSE IF Len(rf.data) # tp.pub.num_states * tp.pub.row_bytes
                THEN Raised("rows_length")
                ELSE IF /\ verify /\ AsciiRowsSha256 \in DOMAIN meta.obj
                        /\ \/ "str" \notin DOMAIN meta.obj[AsciiRowsSha256]
                           \/ meta.obj[AsciiRowsSha256].val # HexDigest(Sha256(rf.data))
                THEN Raised("sha_mismatch")
                ELSE [ok |-> TRUE, pub |-> tp.pub,
                      rows |-> [i \in 0..(tp.pub.num_states - 1) |->
                                  Slice(rf.data, i * tp.pub.row_bytes,
                                        (i + 1) * tp.pub.row_bytes)]]

\* the bytes rows are made of; 1f 8b is the gzip magic
TwoFileRowBytes == {0, 31, 139}

\* the lists of rows handed to write_twofile: every list of n rows of rb bytes and a
\* list whose first row is one byte too long
TwoFileRowLists(n, rb) ==
    [0..(n - 1) -> [1..rb -> TwoFileRowBytes]]
    \cup { [i \in 0..(n - 1) |-> [j \in 1..(IF i = 0 THEN rb + 1 ELSE rb) |-> 0]] }

TwoFileInit ==
    /\ \E n \in 1..MaxFileStates, rb \in FileRowBytes : \E rows_list \in TwoFileRowLists(n, rb) :
         fs = [pc |-> "empty", pub |-> FilePub(n, rb), rows |-> rows_list,
               gzip_header |-> FALSE, header_file |-> <<>>, rows_file |-> <<>>,
               verify |-> FALSE, out |-> <<>>]
    /\ pub = <<>> /\ store = <<>> /\ pads = <<>> /\ plain = <<>> /\ ev = <<>>
    /\ odfa = <<>> /\ bld = <<>> /\ ot = <<>>

\* write_twofile(output_dir, pub, rows, gzip_header=...)
WriteTwofile ==
    /\ fs.pc = "empty"
    /\ \E gz \in BOOLEAN :
         IF WriteTwofileAccepts(fs.pub, fs.rows)
         THEN fs' = [fs EXCEPT !.pc = "written", !.gzip_header = gz,
                               !.header_file = TwofileHeader(fs.pub, fs.rows, gz),
                               !.rows_file = JoinRows(fs.rows, Size(fs.rows))]
         ELSE fs' = [fs EXCEPT !.pc = "write_raised", !.gzip_header = gz]
    /\ UNCHANGED <<pub, store, pads, plain, ev, odfa, bld, ot>>

\* load_gdfa_from_files(header_path, rows_path, verify_sha256=verify)
LoadFromFiles ==
    /\ fs.pc = "written"
    /\ \E verify \in BOOLEAN :
         fs' = [fs EXCEPT !.pc = "loaded", !.verify = verify,
                          !.out = LoadGdfaFromFiles(fs.header_file, fs.rows_file, verify)]
    /\ UNCHANGED <<pub, store, pads, plain, ev, odfa, bld, ot>>

TwoFileNext == WriteTwofile \/ LoadFromFiles

SpecTwoFile == TwoFileInit /\ [][TwoFileNext]_vars

-----------------------------------------------------------------------------
(* Properties of the two-file format                                       *)

\* the header text the loader sees, after its gzip detection
HeaderText == ReadMaybeGz(fs.header_file).data

\* C11 as stated: a header and rows written by write_twofile (plain or gzip-framed
\* header) and read by load_gdfa_from_files(verify_sha256=True) load for every row
\* content, the header and the row bytes come back identical, and the header's
\* rows_sha256 is the SHA-256 of the num_states * row_bytes bytes of rows.bin.
C11_TwoFileRoundTrip ==
    (fs.pc = "loaded" /\ fs.verify) =>
        /\ fs.out.ok
        /\ fs.out.pub = fs.pub
        /\ fs.out.rows = fs.rows
        /\ Len(fs.rows_file) = fs.pub.num_states * fs.pub.row_bytes
        /\ JsonLoads(HeaderText).obj[AsciiRowsSha256].val = HexDigest(Sha256(fs.rows_file))

-----------------------------------------------------------------------------
(* Online evaluation over OT tokens: GDFARunner over OTPadOracle, whose     *)
(* token source is either the raw source or an OTQueryBuilder wrapping it   *)

\* cache_capacity of the OTQueryBuilder; 0 is also what enable_cache=False gives
CacheCapacities == {0, 1, 2}

\* outcomes of os.urandom(kprime_bytes) for GK[row][col]
OnGkChoices ==
    { [r \in EvRows |-> [c \in EvCols |-> <<17 + 16 * r + c>>]],
      [r \in EvRows |-> [c \in EvCols |-> <<42 + c>>]] }

\* sym_to_cols of the test: every symbol belongs to the one column x % outmax
OnSymToCols(x) == List(<<x % EvOutmax>>)

\* the table entry the 1-of-256 OT delivers for (row, x)
OnTableEntry(gk, block, row_id, x) ==
    TableEntry(OnSymToCols(x), gk[row_id], [k \in 0..(EvCmax - 1) |-> block], EvCmax)

\* a token of the expected length whose blocks are the key of no column
ForeignToken == JoinRows([k \in 0..(EvCmax - 1) |-> <<200 + k>>], EvCmax)

\* what TokenSource.get_token may hand back: the table entry, byte strings of other
\* lengths, a foreign token, no bytes at all, or an exception of its own
SourceReplies(gk, block, row_id, x) ==
    LET t == OnTableEntry(gk, block, row_id, x)
    IN  { [kind |-> "bytes", val |-> t],
          [kind |-> "bytes", val |-> Slice(t, 0, Len(t) - 1)],
          [kind |-> "bytes", val |-> t \o <<0>>],
          [kind |-> "bytes", val |-> ForeignToken],
          [kind |-> "none", val |-> <<>>],
          [kind |-> "raises", val |-> <<>>] }

\* a sanity check of the row id alone
QuerySaneRowOnly(row_id, x, p) == 0 <= row_id /\ row_id < p.num_states

\* OTQuery.sanity_check
QuerySane(row_id, x, p) == 0 <= row_id /\ row_id < p.num_states /\ 0 <= x /\ x <= 255

\* position of key in the OrderedDict of the _LRUCache, 0 when absent
CacheIndex(cache, key) ==
    IF \E i \in 1..Len(cache) : cache[i].key = key
    THEN CHOOSE i \in 1..Len(cache) : cache[i].key = key
    ELSE 0

\* OrderedDict.move_to_end
MoveToEnd(cache, i) ==
    [j \in 1..Len(cache) |-> IF j < i THEN cache[j]
                             ELSE IF j < Len(cache) THEN cache[j + 1] ELSE cache[i]]

\* a get that leaves the order of the map alone
CacheGetNoMove(cap, cache, key) ==
    LET i == CacheIndex(cache, key)
    IN  IF cap = 0 \/ i = 0 THEN [hit |-> FALSE, val |-> <<>>, cache |-> cache]
        ELSE [hit |-> TRUE, val |-> cache[i].val, cache |-> cache]

\* _LRUCache.get: the value and the map afterwards
CacheGet(cap, cache, key) ==
    LET i == CacheIndex(cache, key)
    IN  IF cap = 0 \/ i = 0 THEN [hit |-> FALSE, val |-> <<>>, cache |-> cache]
        ELSE [hit |-> TRUE, val |-> cache[i].val, cache |-> MoveToEnd(cache, i)]

\* _LRUCache.put
CachePut(cap, cache, key, value) ==
    LET i == CacheIndex(cache, key)
        entry == [key |-> key, val |-> value]
    IN  IF cap = 0 THEN cache
        ELSE IF i # 0 THEN [MoveToEnd(cache, i) EXCEPT ![Len(cache)] = entry]
        ELSE IF Len(cache) + 1 > cap THEN Tail(Append(cache, entry))
        ELSE Append(cache, entry)

\* a get_token that counts a cache hit as a request
GetTokenHitAsRequest(qb, row_id, x, reply, p, pack) ==
    LET key == <<row_id, x>>
        got == CacheGet(qb.cap, qb.cache, key)
    IN  IF ~QuerySane(row_id, x, p)
        THEN [qb |-> qb, ok |-> FALSE, err |-> "query_range", token |-> <<>>, hit |-> FALSE]
        ELSE IF got.hit
        THEN [qb |-> [qb EXCEPT !.cache = got.cache, !.requests = @ + 1],
              ok |-> TRUE, err |-> "", token |-> got.val, hit |-> TRUE]
        ELSE IF reply.kind = "raises"
        THEN [qb |-> qb, ok |-> FALSE, err |-> "source", token |-> <<>>, hit |-> FALSE]
        ELSE IF reply.kind # "bytes"
        THEN [qb |-> qb, ok |-> FALSE, err |-> "type_error", token |-> <<>>, hit |-> FALSE]
        ELSE IF Len(reply.val) # pack.cmax * pack.kprime_bytes
        THEN [qb |-> qb, ok |-> FALSE, err |-> "token_length", token |-> <<>>, hit |-> FALSE]
        ELSE [qb |-> [qb EXCEPT !.cache = CachePut(qb.cap, @, key, reply.val),
                                !.requests = @ + 1],
              ok |-> TRUE, err |-> "", token |-> reply.val, hit |-> FALSE]

\* a get_token that stores the token before it checks the length
GetTokenPutFirst(qb, row_id, x, reply, p, pack) ==
    LET key == <<row_id, x>>
        got == CacheGet(qb.cap, qb.cache, key)
    IN  IF ~QuerySane(row_id, x, p)
        THEN [qb |-> qb, ok |-> FALSE, err |-> "query_range", token |-> <<>>, hit |-> FALSE]
        ELSE IF got.hit
        THEN [qb |-> [qb EXCEPT !.cache = got.cache, !.cache_hits = @ + 1],
              ok |-> TRUE, err |-> "", token |-> got.val, hit |-> TRUE]
        ELSE IF reply.kind = "raises"
        THEN [qb |-> qb, ok |-> FALSE, err |-> "source", token |-> <<>>, hit |-> FALSE]
        ELSE IF reply.kind # "bytes"
        THEN [qb |-> qb, ok |-> FALSE, err |-> "type_error", token |-> <<>>, hit |-> FALSE]
        ELSE IF Len(reply.val) # pack.cmax * pack.kprime_bytes
        THEN [qb |-> [qb EXCEPT !.cache = CachePut(qb.cap, @, key, reply.val)],
              ok |-> FALSE, err |-> "token_length", token |-> <<>>, hit |-> FALSE]
        ELSE [qb |-> [qb EXCEPT !.cache = CachePut(qb.cap, @, key, reply.val),
                                !.requests = @ + 1],
              ok |-> TRUE, err |-> "", token |-> reply.val, hit |-> FALSE]

\* a get_token that counts the request as soon as the source has answered
GetTokenCountsFirst(qb, row_id, x, reply, p, pack) ==
    LET key == <<row_id, x>>
        got == CacheGet(qb.cap, qb.cache, key)
        counted == [qb EXCEPT !.requests = @ + 1]
    IN  IF ~QuerySane(row_id, x, p)
        THEN [qb |-> qb, ok |-> FALSE, err |-> "query_range", token |-> <<>>, hit |-> FALSE]
        ELSE IF got.hit
        THEN [qb |-> [qb EXCEPT !.cache = got.cache, !.cache_hits = @ + 1],
              ok |-> TRUE, err |-> "", token |-> got.val, hit |-> TRUE]
        ELSE IF reply.kind = "raises"
        THEN [qb |-> qb, ok |-> FALSE, err |-> "source", token |-> <<>>, hit |-> FALSE]
        ELSE IF reply.kind # "bytes"
        THEN [qb |-> counted, ok |-> FALSE, err |-> "type_error", token |-> <<>>,
              hit |-> FALSE]
        ELSE IF Len(reply.val) # pack.cmax * pack.kprime_bytes
        THEN [qb |-> counted, ok |-> FALSE, err |-> "token_length", token |-> <<>>,
              hit |-> FALSE]
        ELSE [qb |-> [counted EXCEPT !.cache = CachePut(qb.cap, @, key, reply.val)],
              ok |-> TRUE, err |-> "", token |-> reply.val, hit |-> FALSE]

\* OTQueryBuilder.get_token(row_id, x) when the source would answer with reply: the
\* builder afterwards, and the token returned or the exception raised
GetToken(qb, row_id, x, reply, p, pack) ==
    LET key == <<row_id, x>>
        got == CacheGet(qb.cap, qb.cache, key)
    IN  IF ~QuerySane(row_id, x, p)
        THEN [qb |-> qb, ok |-> FALSE, err |-> "query_range", token |-> <<>>, hit |-> FALSE]
        ELSE IF got.hit
        THEN [qb |-> [qb EXCEPT !.cache = got.cache, !.cache_hits = @ + 1],
              ok |-> TRUE, err |-> "", token |-> got.val, hit |-> TRUE]
        ELSE IF reply.kind = "raises"
        THEN [qb |-> qb, ok |-> FALSE, err |-> "source", token |-> <<>>, hit |-> FALSE]
        ELSE IF reply.kind # "bytes"
        THEN [qb |-> qb, ok |-> FALSE, err |-> "type_error", token |-> <<>>, hit |-> FALSE]
        ELSE IF Len(reply.val) # pack.cmax * pack.kprime_bytes
        THEN [qb |-> qb, ok |-> FALSE, err |-> "token_length", token |-> <<>>, hit |-> FALSE]
        ELSE [qb |-> [qb EXCEPT !.cache = CachePut(qb.cap, @, key, reply.val),
                                !.requests = @ + 1],
              ok |-> TRUE, err |-> "", token |-> reply.val, hit |-> FALSE]

\* the raw source handed to the oracle directly: len(token) of a non-bytes reply
\* raises a TypeError in derive_for_row
RawToken(qb, reply) ==
    IF reply.kind = "raises"
    THEN [qb |-> qb, ok |-> FALSE, err |-> "source", token |-> <<>>, hit |-> FALSE]
    ELSE IF reply.kind # "bytes"
    THEN [qb |-> qb, ok |-> FALSE, err |-> "type_error", token |-> <<>>, hit |-> FALSE]
    ELSE [qb |-> qb, ok |-> TRUE, err |-> "", token |-> reply.val, hit |-> FALSE]

\* OTPadOracle.derive_for_row(row_id, x) with self.token_source wired as the
\* builder or the raw source: the cell format first, then the token, then the search
OracleDerive(qb, row_id, x, reply, enc_row, p, pack) ==
    LET tk == IF qb.wired = "builder" THEN GetToken(qb, row_id, x, reply, p, pack)
              ELSE RawToken(qb, reply)
        none == [ok |-> FALSE, err |-> "", col |-> -1, pad |-> <<>>, tried |-> 0]
    IN  IF ~DeriveCellFormat(p).ok
        THEN [qb |-> qb, hit |-> FALSE, ans |-> [none EXCEPT !.err = "cell_format"]]
        ELSE IF ~tk.ok
        THEN [qb |-> tk.qb, hit |-> FALSE, ans |-> [none EXCEPT !.err = tk.err]]
        ELSE [qb |-> tk.qb, hit |-> tk.hit,
              ans |-> DeriveForRow(row_id, tk.token, enc_row, p, pack)]

OnIdle ==
    [pc |-> "idle", data |-> <<>>, stop |-> FALSE, pos |-> 0, row |-> 0,
     first |-> 0, last |-> 0, steps |-> 0, asked |-> <<>>, result |-> <<>>,
     err |-> "", tried |-> 0, hit |-> FALSE, reply |-> [kind |-> "", val |-> <<>>],
     col |-> -1, pad |-> <<>>]

OnlineInit ==
    /\ pub = OtPub(EvAidBits)
    /\ plain = OtTransitions
    /\ \E gk \in OnGkChoices, block \in KeyChoices, cap \in CacheCapacities,
          wired \in {"builder", "source"} :
         /\ ot = [gk |-> gk, block |-> block, wired |-> wired, cap |-> cap,
                  cache |-> <<>>, requests |-> 0, cache_hits |-> 0]
         /\ store = [r \in EvRows |->
                       ForgeRow(plain,
                                [q \in EvRows |-> [c \in EvCols |->
                                    DerivePadFromGk(gk[q][c], q, c, OtPack.k_bytes,
                                                    pub.cell_bytes * 8)]],
                                r, pub)]
    /\ ev = OnIdle
    /\ pads = <<>> /\ odfa = <<>> /\ bld = <<>> /\ fs = <<>>

\* evaluate is called on a fresh runner
OnlineStart ==
    /\ ev.pc = "idle"
    /\ \E data \in SeqsUpTo(InputBytes, MaxLen), stop \in BOOLEAN :
         LET e == [OnIdle EXCEPT !.data = data, !.stop = stop, !.row = pub.start_row]
         IN  ev' = IF Len(data) = 0
                   THEN [e EXCEPT !.pc = "returned", !.result = EvalResult(e)]
                   ELSE [e EXCEPT !.pc = "loop"]
    /\ UNCHANGED <<pub, store, pads, plain, odfa, bld, ot, fs>>

\* a runner that asks for every byte's token with the start row
RequestFromStart(e) == <<pub.start_row, e.data[e.pos + 1]>>

\* the (row_id, x) evaluate hands to derive_for_row, and derive_for_row to
\* token_source.get_token, in the loop pass over the byte at e.pos
Request(e) == <<e.row, e.data[e.pos + 1]>>

\* the rest of a loop pass of evaluate once derive_for_row has answered (or raised)
\* d for the request of the locals e: the pad is checked, the cell decrypted and
\* unpacked, the row advanced; an exception of any callee leaves evaluate with
\* nothing returned
AfterOracle(e, reply, hit, d) ==
    LET fmt  == DeriveCellFormat(pub)
        pt   == XorBytes(SliceCell(StoreGet(e.row).row, d.col), d.pad)
        e0   == [e EXCEPT !.asked = Append(@, Request(e)), !.reply = reply,
                          !.hit = hit, !.tried = d.tried, !.err = d.err,
                          !.col = d.col, !.pad = d.pad]
    IN  IF ~d.ok THEN [e0 EXCEPT !.pc = "raised"]
        ELSE IF \/ Len(d.pad) # pub.cell_bytes
                \/ ~StoreGet(e.row).ok
                \/ ~(0 <= d.col /\ d.col < pub.outmax)
                \/ Len(pt) # TotalBytes(fmt)
        THEN [e0 EXCEPT !.pc = "raised", !.err = "evaluate"]
        ELSE LET cell == UnpackCell(pt, fmt)
                 e1   == AttackUpdate([e0 EXCEPT !.row = cell.ns, !.steps = @ + 1,
                                                 !.pos = @ + 1], cell.aid)
             IN  IF StopsHere(e.stop, cell.aid) \/ e1.pos = Len(e.data)
                 THEN [e1 EXCEPT !.pc = "returned", !.result = EvalResult(e1)]
                 ELSE e1

\* one iteration of the loop of evaluate: the oracle call with the token the source
\* answers, then the cell is decrypted and the row advanced
OnlineStep ==
    /\ ev.pc = "loop"
    /\ \E reply \in SourceReplies(ot.gk, ot.block, Request(ev)[1], Request(ev)[2]) :
       \E od \in {OracleDerive(ot, Request(ev)[1], Request(ev)[2], reply,
                               StoreGet(ev.row).row, pub, OtPack)} :
         /\ ot' = od.qb
         /\ ev' = AfterOracle(ev, reply, od.hit, od.ans)
    /\ UNCHANGED <<pub, store, pads, plain, odfa, bld, fs>>

OnlineNext == OnlineStart \/ OnlineStep

SpecOnline == OnlineInit /\ [][OnlineNext]_vars

-----------------------------------------------------------------------------
(* Properties of the online evaluation over OT tokens                      *)

\* the token length the client enforces
ExpectedLen == OtPack.cmax * OtPack.kprime_bytes

\* the step just taken asked the source and was answered with a byte string
SourceAnswered == ev'.asked # ev.asked /\ ~ev'.hit /\ ev'.reply.kind = "bytes"

\* C12: a token whose length differs from cmax * kprime_bytes is rejected with the
\* length-mismatch failure before any candidate key is tried (oracle) and before it
\* is cached (query builder: cache, requests and hits are left as they were); a
\* token of exactly that length proceeds to the column search.
C12_LengthCheckedFirst ==
    [][ SourceAnswered =>
          IF Len(ev'.reply.val) # ExpectedLen
          THEN /\ ev'.pc = "raised" /\ ev'.err = "token_length" /\ ev'.tried = 0
               /\ ot' = ot
          ELSE /\ ev'.tried >= 1
               /\ ev'.err \in {"", "no_valid"}
               /\ ot.wired = "builder" /\ ot.cap > 0 =>
                    ot'.cache[Len(ot'.cache)] =
                        [key |-> ev'.asked[Len(ev'.asked)], val |-> ev'.reply.val] ]_vars

\* the builder has cached an earlier token of the expected length, and the token
\* for the next byte is refused for its length
C12_Witness ==
    /\ ev.pc = "raised" /\ ev.err = "token_length" /\ ev.steps >= 1
    /\ ot.wired = "builder" /\ Len(ot.cache) >= 1
    /\ Len(ev.reply.val) = ExpectedLen + 1

\* the token derive_for_row works on in the step just taken: the cached one on a
\* hit, else the source's reply
TokenUsed ==
    IF ev'.hit
    THEN ot.cache[CacheIndex(ot.cache, <<ev.row, ev.data[ev.pos + 1]>>)].val
    ELSE ev'.reply.val

\* no (column, key of the token) pair decrypts the row to a well-formed plaintext
NoCandidate(row_id, token) ==
    \A c \in EvCols : \A i \in 0..(EvCmax - 1) :
        ~Candidate(row_id, c, Slice(token, i * OtPack.kprime_bytes,
                                    (i + 1) * OtPack.kprime_bytes),
                   store[row_id], pub, OtPack).valid

\* C13: when no (column, candidate key) pair yields a well-formed plaintext for the
\* current row and symbol, derive_for_row fails with the invalid-token failure and
\* evaluate ends by that failure: the row is not advanced, no step is counted and no
\* EvalResult is returned.
C13_InvalidTokenAborts ==
    [][ ( /\ ev.pc = "loop" /\ ev'.asked # ev.asked
          /\ ev'.hit \/ ev'.reply.kind = "bytes"
          /\ Len(TokenUsed) = ExpectedLen
          /\ NoCandidate(ev.row, TokenUsed) ) =>
        ( /\ ev'.pc = "raised" /\ ev'.err = "no_valid"
          /\ ev'.tried = EvOutmax * EvCmax
          /\ ev'.row = ev.row /\ ev'.steps = ev.steps /\ ev'.pos = ev.pos
          /\ ev'.result = <<>> ) ]_vars

\* a stream that was cut by a foreign token after at least one good step
C13_Witness ==
    /\ ev.pc = "raised" /\ ev.err = "no_valid" /\ ev.steps >= 1
    /\ ev.reply.val = ForeignToken /\ ev.result = <<>>

\* C31: during one evaluate call over OTPadOracle the token source is asked exactly
\* once per processed byte, in input order, with (row_id, x) = (the row reached after
\* the preceding bytes, the current byte); the request for byte i + 1 is issued only
\* after the cell for byte i has been decrypted.
C31_OneRequestPerByte ==
    [][ /\ ev.pc = "loop" =>
            /\ ev'.asked = Append(ev.asked, <<ev.row, ev.data[ev.pos + 1]>>)
            /\ Len(ev.asked) = ev.steps /\ ev.steps = ev.pos
            /\ ev.pos = 0 => ev.row = pub.start_row
            /\ ev'.pc # "raised" =>
                  /\ ev'.steps = ev.steps + 1 /\ ev'.pos = ev.pos + 1
                  /\ ev'.row = UnpackCell(XorBytes(SliceCell(store[ev.row], ev'.col),
                                                   ev'.pad),
                                          DeriveCellFormat(pub)).ns
        /\ ev.pc # "loop" => (ev'.asked = <<>> /\ ev'.steps = 0) ]_vars

\* a call returned after three bytes that led through three different rows
C31_Witness ==
    /\ ev.pc = "returned" /\ Len(ev.asked) = 3 /\ ev.steps = 3
    /\ ev.asked[1][1] # ev.asked[2][1] /\ ev.asked[2][1] # ev.asked[3][1]
    /\ ev.asked[1][2] # ev.asked[2][2]

\* C29: when an evaluation is cut short before the end of the input (a failure at
\* some byte, or the token retrieval is cancelled), the caller obtains a partial
\* result covering the steps completed so far: the row, the attack ids and the step
\* count as of the last completed step.
C29_PartialResultOnAbort ==
    (ev.pc = "raised" /\ ev.steps >= 1) => ev.result = EvalResult(ev)

-----------------------------------------------------------------------------
(* evaluate over OTPadOracle on rows the client did not make: a header of   *)
(* three states whose cells carry a two-bit next-state field, rows that      *)
(* name any value of that field, and tokens of any kind                      *)

\* the header of the test with one state less: ns_bits stays 2 and the field value
\* num_states is out of range
RowsPub ==
    [OtPub(EvAidBits) EXCEPT !.num_states = EvNumStates - 1,
                             !.permutation = [i \in 0..(EvNumStates - 2) |-> i]]

\* the next states the cells of the served rows name, one table per shift
ShiftedTransitions(k) ==
    [r \in 0..(EvNumStates - 2) |-> [c \in EvCols |->
        [ns |-> (r + c + k) % EvNumStates, aid |-> IF r = 1 /\ c = 0 THEN 9 ELSE 0]]]

\* what the token source may hand back for (row_id, x): the replies of the honest
\* run and tokens that carry the keys of both columns
AnyReplies(gk, block, row_id, x) ==
    SourceReplies(gk, block, row_id, x)
    \cup { [kind |-> "bytes", val |-> gk[row_id][0] \o gk[row_id][1]],
           [kind |-> "bytes", val |-> gk[row_id][1] \o gk[row_id][0]] }

RowsInit ==
    /\ pub = RowsPub
    /\ \E k \in 0..(EvNumStates - 1) : plain = ShiftedTransitions(k)
    /\ \E gk \in OnGkChoices :
         /\ ot = [gk |-> gk, block |-> <<17>>, wired |-> "source", cap |-> 0,
                  cache |-> <<>>, requests |-> 0, cache_hits |-> 0]
         /\ store = [r \in 0..(EvNumStates - 2) |->
                       ForgeRow(plain,
                                [q \in 0..(EvNumStates - 2) |-> [c \in EvCols |->
                                    DerivePadFromGk(gk[q][c], q, c, OtPack.k_bytes,
                                                    pub.cell_bytes * 8)]],
                                r, pub)]
    /\ ev = OnIdle
    /\ pads = <<>> /\ odfa = <<>> /\ bld = <<>> /\ fs = <<>>

\* one iteration of the loop of evaluate on any reply of the token source
RowsStep ==
    /\ ev.pc = "loop"
    /\ \E reply \in AnyReplies(ot.gk, ot.block, Request(ev)[1], Request(ev)[2]) :
       \E od \in {OracleDerive(ot, Request(ev)[1], Request(ev)[2], reply,
                               StoreGet(ev.row).row, pub, OtPack)} :
         /\ ot' = od.qb
         /\ ev' = AfterOracle(ev, reply, od.hit, od.ans)
    /\ UNCHANGED <<pub, store, pads, plain, odfa, bld, fs>>

RowsNext == OnlineStart \/ RowsStep

SpecRows == RowsInit /\ [][RowsNext]_vars

\* C36: during evaluate over OTPadOracle the current row is always in
\* [0, num_states): every row id passed to RowStore.get and to the token source, and
\* the final_row of every returned EvalResult, is a valid row index, for any
\* ciphertext rows and any tokens.
C36_RowStaysInRange ==
    (ev.pc # "idle") =>
        /\ \A k \in 1..Len(ev.asked) : ev.asked[k][1] \in 0..(pub.num_states - 1)
        /\ ev.pc \in {"loop", "returned"} => ev.row \in 0..(pub.num_states - 1)
        /\ ev.pc = "returned" => ev.result[1].final_row \in 0..(pub.num_states - 1)
        /\ ev.err # "evaluate"

\* after a good step the honest token opened a cell that names state num_states,
\* and the oracle refused it
C36_Witness ==
    /\ ev.pc = "raised" /\ ev.err = "no_valid" /\ ev.steps >= 1
    /\ ev.reply.val = OnTableEntry(ot.gk, ot.block, ev.row, ev.data[ev.pos + 1])
    /\ plain[ev.row][ev.data[ev.pos + 1] % EvOutmax].ns = pub.num_states

-----------------------------------------------------------------------------
(* Base 1-of-2 OT over a prime-order subgroup (common/ot/base_ot2)          *)

\* DDHGroup: a safe prime p = 2q + 1 and a generator g of the subgroup of order q
GroupP == 23
GroupQ == 11
GroupG == 4

\* DDHGroup.get_random_exponent: a draw from Z_q
Exponents == 0..(GroupQ - 1)

\* DDHGroup.power(base, e) = base^e mod p
RECURSIVE Power(_, _)
Power(base, e) ==
    IF e = 0 THEN 1 % GroupP
    ELSE LET hlf == Power(base, e \div 2)
         IN  (((hlf * hlf) % GroupP) * (IF e % 2 = 1 THEN base % GroupP ELSE 1)) % GroupP

\* DDHGroup.inverse(x): the inverse of x modulo p
Inverse(x) == Power(x, GroupP - 2)

AsciiPrfLabel == <<80, 82, 70, 124>>
AsciiOt2M0 == <<79, 84, 50, 124, 109, 48>>
AsciiOt2M1 == <<79, 84, 50, 124, 109, 49>>

\* prf_labeled(key, label, out_len) = prf_msg(key, "PRF|" label, out_len)
PrfLabeled(key, label, out_len) == PrfMsg(key, AsciiPrfLabel \o label, out_len)

\* key_byte_len = (q.bit_length() + 7) // 8
KeyByteLen == (BitLength(GroupQ) + 7) \div 8

\* K.to_bytes(key_byte_len, 'big'); every K below p fits the model's key_byte_len
KeyBytes(K) == ToBytesBE(K, KeyByteLen)

Ot2Label(bit) == IF bit = 0 THEN AsciiOt2M0 ELSE AsciiOt2M1

\* a respond that takes any B
RespondUnchecked(a, A, B, m0, m1) ==
    LET K0 == Power(B, a)
        K1 == Power((B * Inverse(A)) % GroupP, a)
    IN  IF Len(m0) # Len(m1)
        THEN [ok |-> FALSE, err |-> "length", c0 |-> <<>>, c1 |-> <<>>]
        ELSE [ok |-> TRUE, err |-> "",
              c0 |-> XorBytes(m0, PrfLabeled(KeyBytes(K0), AsciiOt2M0, Len(m0))),
              c1 |-> XorBytes(m1, PrfLabeled(KeyBytes(K1), AsciiOt2M1, Len(m1)))]

\* DDHOTSender.respond(B, m0, m1) of the sender with exponent a and public key A
Respond(a, A, B, m0, m1) ==
    LET K0 == Power(B, a)
        K1 == Power((B * Inverse(A)) % GroupP, a)
    IN  IF ~(1 < B /\ B < GroupP)
        THEN [ok |-> FALSE, err |-> "public_key", c0 |-> <<>>, c1 |-> <<>>]
        ELSE IF Power(B, GroupQ) # 1
        THEN [ok |-> FALSE, err |-> "subgroup", c0 |-> <<>>, c1 |-> <<>>]
        ELSE IF Len(m0) # Len(m1)
        THEN [ok |-> FALSE, err |-> "length", c0 |-> <<>>, c1 |-> <<>>]
        ELSE [ok |-> TRUE, err |-> "",
              c0 |-> XorBytes(m0, PrfLabeled(KeyBytes(K0), AsciiOt2M0, Len(m0))),
              c1 |-> XorBytes(m1, PrfLabeled(KeyBytes(K1), AsciiOt2M1, Len(m1)))]

\* DDHOTReceiver.generate_B(A)
GenerateB(A, b, choice_bit) ==
    IF choice_bit = 0 THEN Power(GroupG, b) ELSE (A * Power(GroupG, b)) % GroupP

\* DDHOTReceiver.recover((c0, c1)) once A is set
Recover(A, b, choice_bit, c0, c1) ==
    LET chosen == IF choice_bit = 0 THEN c0 ELSE c1
    IN  XorBytes(chosen, PrfLabeled(KeyBytes(Power(A, b)), Ot2Label(choice_bit), Len(chosen)))

\* one base-OT session as the 1-of-m chooser and the batch run it: both constructors,
\* generate_B, respond, recover
BaseOtRun(a, b, choice_bit, m0, m1) ==
    LET A == Power(GroupG, a)
        B == GenerateB(A, b, choice_bit)
        r == Respond(a, A, B, m0, m1)
    IN  IF r.ok THEN [ok |-> TRUE, err |-> "", val |-> Recover(A, b, choice_bit, r.c0, r.c1)]
        ELSE [ok |-> FALSE, err |-> r.err, val |-> <<>>]

\* the messages of a run
OtMessages == {<<7>>, <<1, 2>>, <<254, 3>>}

\* values a peer may send for B besides the one generate_B computed
ForeignB == {0, 1, 2, 5, 22, 23, 24}

\* the exponents drawn in the sessions of a batch run
BatchExponents == [a : {1, 3}, b : {3, 10}]

MaxBatch == 2

\* one position of a batch run: its choice bit, its two messages and the exponents
\* its session draws
BatchPositions ==
    [choice : {0, 1}, m0 : {<<7>>, <<1, 2>>}, m1 : {<<9>>, <<254, 3>>}, exps : BatchExponents]

BaseOtInit ==
    /\ ot = [pc |-> "new"]
    /\ pub = <<>> /\ store = <<>> /\ pads = <<>> /\ plain = <<>> /\ ev = <<>>
    /\ odfa = <<>> /\ bld = <<>> /\ fs = <<>>

\* DDHOTSender.__init__
SenderInit ==
    /\ ot.pc = "new"
    /\ \E a \in Exponents : ot' = [pc |-> "sender", a |-> a, A |-> Power(GroupG, a)]
    /\ UNCHANGED <<pub, store, pads, plain, ev, odfa, bld, fs>>

\* DDHOTReceiver.__init__: a choice bit other than 0 and 1 raises
ReceiverInit ==
    /\ ot.pc = "sender"
    /\ \E choice_bit \in {0, 1, 2}, b \in Exponents :
         ot' = IF choice_bit \notin {0, 1}
               THEN [pc |-> "receiver_raised", a |-> ot.a, A |-> ot.A]
               ELSE [pc |-> "receiver", a |-> ot.a, A |-> ot.A, choice_bit |-> choice_bit,
                     b |-> b, rA |-> -1, B |-> -1]
    /\ UNCHANGED <<pub, store, pads, plain, ev, odfa, bld, fs>>

\* DDHOTReceiver.generate_B on the sender's A
ReceiverGenerateB ==
    /\ ot.pc = "receiver"
    /\ ot' = [ot EXCEPT !.pc = "keyed", !.rA = ot.A,
                        !.B = GenerateB(ot.A, ot.b, ot.choice_bit)]
    /\ UNCHANGED <<pub, store, pads, plain, ev, odfa, bld, fs>>

\* DDHOTSender.respond on the B the receiver generated or on a foreign value
SenderRespond ==
    /\ ot.pc \in {"receiver", "keyed"}
    /\ \E B \in (IF ot.pc = "keyed" THEN {ot.B} ELSE {}) \cup ForeignB,
          m0 \in OtMessages, m1 \in OtMessages :
         \E r \in {Respond(ot.a, ot.A, B, m0, m1)} :
           ot' = [pc |-> IF r.ok THEN "responded" ELSE "rejected",
                  a |-> ot.a, A |-> ot.A, choice_bit |-> ot.choice_bit, b |-> ot.b,
                  rA |-> ot.rA, B |-> ot.B, sent |-> B, m0 |-> m0, m1 |-> m1, resp |-> r]
    /\ UNCHANGED <<pub, store, pads, plain, ev, odfa, bld, fs>>

\* a recover that takes the public key 1 when no A was set
RecoverCallUnset(rA, b, choice_bit, c0, c1) ==
    [ok |-> TRUE, out |-> Recover(IF rA = -1 THEN 1 ELSE rA, b, choice_bit, c0, c1)]

\* DDHOTReceiver.recover(c_tuple) of a receiver whose self.A is rA, -1 standing for
\* None: the RuntimeError, or the unmasked ciphertext of the choice bit
RecoverCall(rA, b, choice_bit, c0, c1) ==
    IF rA = -1 THEN [ok |-> FALSE, out |-> <<>>]
    ELSE [ok |-> TRUE, out |-> Recover(rA, b, choice_bit, c0, c1)]

\* DDHOTReceiver.recover on the sender's ciphertexts: a RuntimeError when A is not set
ReceiverRecover ==
    /\ ot.pc = "responded"
    /\ \E r \in {RecoverCall(ot.rA, ot.b, ot.choice_bit, ot.resp.c0, ot.resp.c1)} :
         ot' = [pc |-> IF r.ok THEN "recovered" ELSE "recover_raised",
                a |-> ot.a, A |-> ot.A, choice_bit |-> ot.choice_bit, b |-> ot.b,
                rA |-> ot.rA, B |-> ot.B, sent |-> ot.sent, m0 |-> ot.m0, m1 |-> ot.m1,
                resp |-> ot.resp, out |-> r.out]
    /\ UNCHANGED <<pub, store, pads, plain, ev, odfa, bld, fs>>

\* position j of the loop of batch_recv_bytes and the positions after it: the list
\* of the recovered messages, or the exception of the first session that raises
RECURSIVE BatchFrom(_, _)
BatchFrom(j, inp) ==
    IF j > Len(inp) THEN [ok |-> TRUE, err |-> "", out |-> <<>>]
    ELSE LET r == BaseOtRun(inp[j].exps.a, inp[j].exps.b, inp[j].choice, inp[j].m0, inp[j].m1)
             rest == BatchFrom(j + 1, inp)
         IN  IF ~r.ok THEN [ok |-> FALSE, err |-> r.err, out |-> <<>>]
             ELSE IF ~rest.ok THEN rest
             ELSE [rest EXCEPT !.out = <<r.val>> \o @]

\* every message of the batch has the length of the first m0
BatchLengthsAgree(inp) ==
    \A j \in 1..Len(inp) : Len(inp[j].m0) = Len(inp[1].m0) /\ Len(inp[j].m1) = Len(inp[1].m0)

\* OTExtension.batch_recv_bytes(choices, m0_list, m1_list), the three lists of one
\* length
BatchRecvBytes(inp) ==
    IF Len(inp) = 0 THEN [ok |-> TRUE, err |-> "", out |-> <<>>]
    ELSE IF ~BatchLengthsAgree(inp)
    THEN [ok |-> FALSE, err |-> "identical_length", out |-> <<>>]
    ELSE BatchFrom(1, inp)

\* a batch run through OTExtension.batch_recv_bytes
BatchRun ==
    /\ ot.pc = "new"
    /\ \E n \in 0..MaxBatch : \E inp \in [1..n -> BatchPositions] :
         \E r \in {BatchRecvBytes(inp)} :
           ot' = [pc |-> IF r.ok THEN "batch_returned" ELSE "batch_raised",
                  inp |-> inp, res |-> r]
    /\ UNCHANGED <<pub, store, pads, plain, ev, odfa, bld, fs>>

BaseOtNext ==
    SenderInit \/ ReceiverInit \/ ReceiverGenerateB \/ SenderRespond \/ ReceiverRecover
    \/ BatchRun

SpecBaseOT == BaseOtInit /\ [][BaseOtNext]_vars

\* the values generate_B may be handed for A: the sender's A or another element
OfferedA(A) == {A, 1, 9}

\* DDHOTReceiver.generate_B(A) on any A, also a second time: self.A = A, then B
GenerateBAny ==
    /\ ot.pc \in {"receiver", "keyed"}
    /\ \E A \in OfferedA(ot.A) :
         /\ A # ot.rA
         /\ ot' = [ot EXCEPT !.pc = "keyed", !.rA = A,
                             !.B = GenerateB(A, ot.b, ot.choice_bit)]
    /\ UNCHANGED <<pub, store, pads, plain, ev, odfa, bld, fs>>

\* the receiver's calls in any order against one sender
ReceiverNext ==
    SenderInit \/ ReceiverInit \/ GenerateBAny \/ SenderRespond \/ ReceiverRecover

SpecReceiver == BaseOtInit /\ [][ReceiverNext]_vars

-----------------------------------------------------------------------------
(* Properties of the base 1-of-2 OT                                        *)

\* the sender was given the B generate_B computed, with two messages of one length
HonestRun ==
    /\ ot.pc \in {"responded", "rejected", "recovered"}
    /\ ot.rA # -1 /\ ot.sent = ot.B
    /\ Len(ot.m0) = Len(ot.m1)

Chosen(bit, m0, m1) == IF bit = 0 THEN m0 ELSE m1

\* C15 as stated: for either choice bit and any two equal-length messages a base-OT
\* run (generate_B on the sender's A, respond, recover) returns exactly the chosen
\* message to the receiver, and so does every position of a batch run through
\* OTExtension.batch_recv_bytes.
C15_BaseOtReturnsChosen ==
    /\ HonestRun =>
         /\ ot.pc # "rejected"
         /\ ot.pc = "recovered" => ot.out = Chosen(ot.choice_bit, ot.m0, ot.m1)
    /\ (ot.pc \in {"batch_returned", "batch_raised"} /\ BatchLengthsAgree(ot.inp)) =>
         /\ ot.res.ok
         /\ Len(ot.res.out) = Len(ot.inp)
         /\ \A j \in 1..Len(ot.inp) :
              ot.res.out[j] = Chosen(ot.inp[j].choice, ot.inp[j].m0, ot.inp[j].m1)

\* the sender's two keys and the key the receiver computes
SenderK0 == Power(ot.sent, ot.a)
SenderK1 == Power((ot.sent * Inverse(ot.A)) % GroupP, ot.a)
ReceiverK == Power(ot.rA, ot.b)

\* the ciphertext and the message the receiver did not choose
OtherCipher == IF ot.choice_bit = 0 THEN ot.resp.c1 ELSE ot.resp.c0
OtherMessage == IF ot.choice_bit = 0 THEN ot.m1 ELSE ot.m0

\* the other ciphertext unmasked with the pad of the receiver's key under a label
DecodeOther(bit) ==
    XorBytes(OtherCipher, PrfLabeled(KeyBytes(ReceiverK), Ot2Label(bit), Len(OtherCipher)))

\* C16 as stated: in every base-OT run the key the receiver computes, A^b, equals the
\* sender's key of the choice bit and differs from the sender's other key, and the
\* other ciphertext unmasked with the receiver's key is never the other message.
C16_ReceiverKeyOpensOnlyChosen ==
    (HonestRun /\ ot.pc \in {"responded", "recovered"}) =>
        /\ ReceiverK = (IF ot.choice_bit = 0 THEN SenderK0 ELSE SenderK1)
        /\ ReceiverK # (IF ot.choice_bit = 0 THEN SenderK1 ELSE SenderK0)
        /\ \A bit \in {0, 1} : DecodeOther(bit) # OtherMessage

\* the elements of the subgroup generated by g
Subgroup == {Power(GroupG, e) : e \in 0..(GroupQ - 1)}

\* C17: respond rejects a public key B that is not strictly between 1 and p or is not
\* an element of order dividing q, and rejects two messages of unequal length; in
\* each case no ciphertext is returned.
C17_RespondRejects ==
    (ot.pc \in {"responded", "rejected", "recovered", "recover_raised"}) =>
        LET range == 1 < ot.sent /\ ot.sent < GroupP
            member == ot.sent \in Subgroup
            equal == Len(ot.m0) = Len(ot.m1)
        IN  /\ ~(range /\ member /\ equal) =>
                 /\ ot.pc = "rejected" /\ ~ot.resp.ok
                 /\ ot.resp.c0 = <<>> /\ ot.resp.c1 = <<>>
            /\ ~range => ot.resp.err = "public_key"
            /\ (range /\ ~member) => ot.resp.err = "subgroup"
            /\ (range /\ member /\ ~equal) => ot.resp.err = "length"

\* a B inside (1, p) that lies outside the subgroup has been refused
C17_Witness ==
    /\ ot.pc = "rejected" /\ ot.resp.err = "subgroup"
    /\ ot.sent = GroupP - 1 /\ Len(ot.m0) = Len(ot.m1)

\* C34: DDHOTReceiver.recover fails if generate_B has not first been called with the
\* sender's A: a receiver never decodes ciphertexts before A is set, and after
\* generate_B(A) the key it uses is derived from that same A.
C34_RecoverNeedsA ==
    (ot.pc \in {"recovered", "recover_raised"}) =>
        /\ ot.rA = -1 => ot.pc = "recover_raised" /\ ot.out = <<>> /\ ot.B = -1
        /\ ot.rA # -1 =>
             /\ ot.pc = "recovered"
             /\ ot.B = (IF ot.choice_bit = 0 THEN Power(GroupG, ot.b)
                        ELSE (ot.rA * Power(GroupG, ot.b)) % GroupP)
             /\ ot.out = XorBytes(Chosen(ot.choice_bit, ot.resp.c0, ot.resp.c1),
                                  PrfLabeled(KeyBytes(Power(ot.rA, ot.b)),
                                             Ot2Label(ot.choice_bit),
                                             Len(Chosen(ot.choice_bit, ot.resp.c0,
                                                        ot.resp.c1))))

\* the sender answered a B the receiver never generated, and recover refused to
\* decode the answer
C34_Witness ==
    /\ ot.pc = "recover_raised" /\ ot.rA = -1 /\ ot.resp.ok
    /\ ot.out = <<>> /\ Len(ot.resp.c0) > 1

-----------------------------------------------------------------------------
(* 1-of-m OT over the base OT, and its wrapper for the row tables           *)
(* (common/ot/ot_1ofm.py, common/ot/ot_1of256.py); the wrapper's table size *)
(* 256 is scaled to OtAlphabet                                              *)

SEED_LEN == 32
SID_LEN == 16

MaxM == 3

AsciiJ == <<124, 106, 61>>
AsciiSid == <<124, 115, 105, 100, 61>>

\* _bit_at_lsb
BitAtLsb(i, j) == (i \div Pow2(j)) % 2

\* q_byte_len(q)
QByteLen(q) == (BitLength(q) + 7) \div 8

\* a payload item: a Python int, held as a one-element tuple, or a byte string
IntItem(x) == [int |-> TRUE, val |-> <<x>>]
IntOf(item) == item.val[1]
BytesItem(b) == [int |-> FALSE, val |-> b]

\* info_j = label || "|j=" || I2OSP(j, 2) || "|sid=" || sid
SeedInfo(label, j, sid) == label \o AsciiJ \o I2OSP(j, 2) \o AsciiSid \o sid

\* the XOR of the blocks PRF(seeds[j], info_j, entry_len) over j = 0..l-1, from zeros
RECURSIVE PadOver(_, _, _, _, _)
PadOver(seeds, l, label, sid, entry_len) ==
    IF l = 0 THEN [k \in 1..entry_len |-> 0]
    ELSE XorBytes(PadOver(seeds, l - 1, label, sid, entry_len),
                  PrfMsg(seeds[l - 1], SeedInfo(label, l - 1, sid), entry_len))

\* the seed of option t at bit position j
SeedOf(seed0, seed1, t, j) == IF BitAtLsb(t, j) = 1 THEN seed1[j] ELSE seed0[j]

NoService(err) == [ok |-> FALSE, err |-> err]

\* OT1ofmSender.__init__(group, payload, label=label, sid=sid) with the seeds it draws
OT1ofmSender(payload, label, sid, seed0, seed1) ==
    LET m == Len(payload)
        is_int == payload[1].int
        entry_len == IF is_int THEN QByteLen(GroupQ) ELSE Len(payload[1].val)
        plains == [t \in 0..(m - 1) |->
                    IF is_int THEN I2OSP(IntOf(payload[t + 1]), entry_len)
                    ELSE payload[t + 1].val]
        l == BitLength(m - 1)
    IN  IF m <= 0 THEN NoService("empty")
        ELSE IF is_int /\ \E t \in 1..m :
                  ~payload[t].int \/ ~(1 <= IntOf(payload[t]) /\ IntOf(payload[t]) < GroupQ)
        THEN NoService("int_range")
        ELSE IF ~is_int /\ entry_len <= 0 THEN NoService("entry_empty")
        ELSE IF ~is_int /\ \E t \in 1..m : payload[t].int \/ Len(payload[t].val) # entry_len
        THEN NoService("entry_length")
        ELSE [ok |-> TRUE, err |-> "", mode |-> IF is_int THEN "INT" ELSE "BYTES",
              m |-> m, l |-> l, entry_len |-> entry_len, label |-> label, sid |-> sid,
              seed0 |-> [j \in 0..(l - 1) |-> seed0[j]],
              seed1 |-> [j \in 0..(l - 1) |-> seed1[j]],
              ciphertexts |-> [t \in 0..(m - 1) |->
                  XorBytes(plains[t],
                           PadOver([j \in 0..(l - 1) |-> SeedOf(seed0, seed1, t, j)],
                                   l, label, sid, entry_len))]]

\* the first bit position whose base-OT session raises or hands back a seed of
\* another length than SEED_LEN, or l when there is none
FirstBad(runs, l) ==
    LET bad == {j \in 0..(l - 1) : ~runs[j].ok \/ Len(runs[j].val) # SEED_LEN}
    IN  IF bad = {} THEN l ELSE CHOOSE j \in bad : \A k \in bad : j <= k

\* a choose that builds its pad under the sender's label, not the chooser's
ChooseSenderLabel(svc, label, index, draws) ==
    LET runs == [j \in 0..(svc.l - 1) |->
                    BaseOtRun(draws[j].a, draws[j].b, BitAtLsb(index, j),
                              svc.seed0[j], svc.seed1[j])]
        fb == FirstBad(runs, svc.l)
        pad == PadOver([j \in 0..(svc.l - 1) |-> runs[j].val], svc.l, svc.label, svc.sid,
                       svc.entry_len)
        pt == XorBytes(svc.ciphertexts[index], pad)
        x == FromBytesBE(pt)
    IN  IF ~(0 <= index /\ index < svc.m)
        THEN [ok |-> FALSE, err |-> "index", val |-> <<>>, sessions |-> 0]
        ELSE IF fb < svc.l
        THEN [ok |-> FALSE, err |-> IF runs[fb].ok THEN "seed_length" ELSE runs[fb].err,
              val |-> <<>>, sessions |-> fb + 1]
        ELSE IF svc.mode = "INT" /\ ~(1 <= x /\ x < GroupQ)
        THEN [ok |-> FALSE, err |-> "int_range", val |-> <<>>, sessions |-> svc.l]
        ELSE [ok |-> TRUE, err |-> "", sessions |-> svc.l,
              val |-> IF svc.mode = "INT" THEN IntItem(x) ELSE BytesItem(pt)]

\* choose(_payload_unused, index) of make_chooser(group, label, service); draws[j]
\* are the exponents the session of bit j draws, sessions counts the sessions begun
Choose(svc, label, index, draws) ==
    LET runs == [j \in 0..(svc.l - 1) |->
                    BaseOtRun(draws[j].a, draws[j].b, BitAtLsb(index, j),
                              svc.seed0[j], svc.seed1[j])]
        fb == FirstBad(runs, svc.l)
        pad == PadOver([j \in 0..(svc.l - 1) |-> runs[j].val], svc.l, label, svc.sid,
                       svc.entry_len)
        pt == XorBytes(svc.ciphertexts[index], pad)
        x == FromBytesBE(pt)
    IN  IF ~(0 <= index /\ index < svc.m)
        THEN [ok |-> FALSE, err |-> "index", val |-> <<>>, sessions |-> 0]
        ELSE IF fb < svc.l
        THEN [ok |-> FALSE, err |-> IF runs[fb].ok THEN "seed_length" ELSE runs[fb].err,
              val |-> <<>>, sessions |-> fb + 1]
        ELSE IF svc.mode = "INT" /\ ~(1 <= x /\ x < GroupQ)
        THEN [ok |-> FALSE, err |-> "int_range", val |-> <<>>, sessions |-> svc.l]
        ELSE [ok |-> TRUE, err |-> "", sessions |-> svc.l,
              val |-> IF svc.mode = "INT" THEN IntItem(x) ELSE BytesItem(pt)]

\* ensure_fixed_bytes_table(tbl, expected)
FixedBytesTable(tbl, expected) ==
    /\ Len(tbl) = expected
    /\ Len(tbl) # 0
    /\ \A i \in 1..Len(tbl) : ~tbl[i].int /\ Len(tbl[i].val) = Len(tbl[1].val)

\* a wrapper that builds the sender without the table check
MakeOt256Unchecked(table, label, sid, seed0, seed1) ==
    OT1ofmSender(table, label, sid, seed0, seed1)

\* make_ot256_services(group, table_256, label=label): the sender, or the ValueError
\* of the table check
MakeOt256Services(table, label, sid, seed0, seed1) ==
    IF ~FixedBytesTable(table, OtAlphabet) THEN NoService("table")
    ELSE OT1ofmSender(table, label, sid, seed0, seed1)

\* _OT256Chooser.choose(index)
Ot256Choose(svc, label, index, draws) ==
    IF ~(0 <= index /\ index < OtAlphabet)
    THEN [ok |-> FALSE, err |-> "index_256", val |-> <<>>, sessions |-> 0]
    ELSE Choose(svc, label, index, draws)

\* _OT256Chooser.choose_many(indices): choose for each index in order, the first
\* exception ends the call
RECURSIVE Ot256ChooseMany(_, _, _, _, _)
Ot256ChooseMany(svc, label, indices, draws, k) ==
    IF k > Len(indices) THEN [ok |-> TRUE, err |-> "", out |-> <<>>, sessions |-> 0]
    ELSE LET r == Ot256Choose(svc, label, indices[k], draws)
             rest == Ot256ChooseMany(svc, label, indices, draws, k + 1)
         IN  IF ~r.ok THEN [ok |-> FALSE, err |-> r.err, out |-> <<>>, sessions |-> r.sessions]
             ELSE IF ~rest.ok THEN [rest EXCEPT !.sessions = @ + r.sessions]
             ELSE [rest EXCEPT !.out = <<r.val>> \o @, !.sessions = @ + r.sessions]

\* the labels of a service and of a chooser
LabelChoices == {<<84>>, <<85>>}

\* outcomes of os.urandom(SEED_LEN) for the seed pairs: seed0[j], seed1[j]
SeedFills == {1, 100}
DrawnSeed0(v) == [j \in 0..7 |-> [k \in 1..SEED_LEN |-> (v + 2 * j) % 256]]
DrawnSeed1(v) == [j \in 0..7 |-> [k \in 1..SEED_LEN |-> (v + 2 * j + 1) % 256]]

\* the sid the sender draws when none is given
DrawnSid == [k \in 1..SID_LEN |-> 0]

\* the items a payload is made of: entries of two bytes, one of another length,
\* elements of Z_q^* and one outside it
PayloadItems ==
    {BytesItem(<<1, 2>>), BytesItem(<<3, 4>>), BytesItem(<<5>>),
     IntItem(1), IntItem(GroupQ - 1), IntItem(0)}

\* a table of n entries of cmax * kprime_bytes bytes, as build_row_ot_plan makes them
RowTable(n) == [x \in 1..n |-> BytesItem(<<x, (7 * x) % 256>>)]

\* the tables handed to make_ot256_services: of the expected size, one short, one
\* long, and one with a longer last entry
TableChoices ==
    { RowTable(OtAlphabet), RowTable(OtAlphabet - 1), RowTable(OtAlphabet + 1),
      [RowTable(OtAlphabet) EXCEPT ![OtAlphabet] = BytesItem(@.val \o <<0>>)] }

\* flip_one_bit(b, bit_index) of the test: bit bit_index % 8 of byte bit_index // 8,
\* of byte 0 when that byte is past the end
FlipOneBit(b, bit_index) ==
    IF Len(b) = 0 THEN b
    ELSE LET byte_pos == IF bit_index \div 8 >= Len(b) THEN 0 ELSE bit_index \div 8
         IN  [b EXCEPT ![byte_pos + 1] = XorInt(@, Pow2(bit_index % 8))]

\* the bits the test flips: the lowest bit of the first byte (the default) and a
\* bit of the second byte
FlipBitChoices == {0, 9}

\* the exponents one base-OT session of a choose draws
SessionDraws == {[a |-> 1, b |-> 3], [a |-> 1, b |-> GroupQ - 1]}

OtMInit ==
    /\ ot = [pc |-> "new"]
    /\ pub = <<>> /\ store = <<>> /\ pads = <<>> /\ plain = <<>> /\ ev = <<>>
    /\ odfa = <<>> /\ bld = <<>> /\ fs = <<>>

\* OT1ofmSender(group, payload, label=label), then make_chooser(group, label2, svc)
NewSender ==
    /\ ot.pc = "new"
    /\ \E payload \in SeqsUpTo(PayloadItems, MaxM), label \in LabelChoices,
          label2 \in LabelChoices, v \in SeedFills :
         \E svc \in {OT1ofmSender(payload, label, DrawnSid, DrawnSeed0(v), DrawnSeed1(v))} :
           ot' = [pc |-> IF svc.ok THEN "service" ELSE "sender_raised", wrapper |-> FALSE,
                  payload |-> payload, svc |-> svc, label |-> label2, tampered |-> -1]
    /\ UNCHANGED <<pub, store, pads, plain, ev, odfa, bld, fs>>

\* make_ot256_services(group, table, label=label)
NewOt256 ==
    /\ ot.pc = "new"
    /\ \E table \in TableChoices, label \in LabelChoices, v \in SeedFills :
         \E svc \in {MakeOt256Services(table, label, DrawnSid, DrawnSeed0(v), DrawnSeed1(v))} :
           ot' = [pc |-> IF svc.ok THEN "service" ELSE "sender_raised", wrapper |-> TRUE,
                  payload |-> table, svc |-> svc, label |-> label, tampered |-> -1]
    /\ UNCHANGED <<pub, store, pads, plain, ev, odfa, bld, fs>>

\* chooser(None, index) on a service, or chooser.choose(index) on the wrapper
ChooseOne ==
    /\ ot.pc = "service"
    /\ \E index \in (-1)..(ot.svc.m + 1), draws \in [0..(ot.svc.l - 1) -> SessionDraws] :
         \E r \in {IF ot.wrapper THEN Ot256Choose(ot.svc, ot.label, index, draws)
                   ELSE Choose(ot.svc, ot.label, index, draws)} :
           ot' = [pc |-> IF r.ok THEN "chosen" ELSE "choose_raised", wrapper |-> ot.wrapper,
                  payload |-> ot.payload, svc |-> ot.svc, label |-> ot.label,
                  tampered |-> ot.tampered,
                  index |-> index, draws |-> draws, res |-> r]
    /\ UNCHANGED <<pub, store, pads, plain, ev, odfa, bld, fs>>

\* chooser.choose_many(indices) on the wrapper, every session of bit j drawing draws[j]
ChooseMany ==
    /\ ot.pc = "service" /\ ot.wrapper
    /\ \E indices \in SeqsUpTo(0..(OtAlphabet - 1), MaxLen),
          draws \in [0..(ot.svc.l - 1) -> SessionDraws] :
         \E r \in {Ot256ChooseMany(ot.svc, ot.label, indices, draws, 1)} :
           ot' = [pc |-> IF r.ok THEN "chosen_many" ELSE "many_raised", wrapper |-> TRUE,
                  payload |-> ot.payload, svc |-> ot.svc, label |-> ot.label,
                  tampered |-> ot.tampered,
                  indices |-> indices, draws |-> draws, res |-> r]
    /\ UNCHANGED <<pub, store, pads, plain, ev, odfa, bld, fs>>

\* svc.ciphertexts[idx] = flip_one_bit(svc.ciphertexts[idx], bit_index), once
TamperCiphertext ==
    /\ ot.pc = "service" /\ ~ot.wrapper /\ ot.tampered = -1
    /\ \E t \in 0..(ot.svc.m - 1), bit_index \in FlipBitChoices :
         ot' = [ot EXCEPT !.tampered = t,
                          !.svc.ciphertexts[t] = FlipOneBit(@, bit_index)]
    /\ UNCHANGED <<pub, store, pads, plain, ev, odfa, bld, fs>>

OtMNext == NewSender \/ NewOt256 \/ ChooseOne \/ ChooseMany

SpecOtM == OtMInit /\ [][OtMNext]_vars

\* the sender, one tampered ciphertext, and the chooser before or after the tampering
TamperNext == NewSender \/ TamperCiphertext \/ ChooseOne

SpecTamper == OtMInit /\ [][TamperNext]_vars

\* the exponents a session of choose may draw: get_random_exponent ranges over Z_q
SeedDraws == {[a |-> 0, b |-> 3], [a |-> 1, b |-> 3], [a |-> 1, b |-> GroupQ - 1]}

\* what the chooser holds after the base-OT session of bit j: its choice bit, the
\* sender's A, its own exponent b and the two ciphertexts respond returned
SessionView(a, b, bit, m0, m1) ==
    LET A == Power(GroupG, a)
        r == Respond(a, A, GenerateB(A, b, bit), m0, m1)
    IN  [bit |-> bit, A |-> A, b |-> b, ok |-> r.ok, c0 |-> r.c0, c1 |-> r.c1]

\* the chooser's key A^b applied to the ciphertext of message w of a session
Unmask(view, w) ==
    LET c == IF w = 0 THEN view.c0 ELSE view.c1
    IN  XorBytes(c, PrfLabeled(KeyBytes(Power(view.A, view.b)), Ot2Label(w), Len(c)))

\* chooser(None, index) with the views of the sessions it began
ChooseSeeds ==
    /\ ot.pc = "service"
    /\ \E index \in 0..(ot.svc.m - 1), draws \in [0..(ot.svc.l - 1) -> SeedDraws] :
         \E r \in {Choose(ot.svc, ot.label, index, draws)} :
           ot' = [pc |-> IF r.ok THEN "chosen" ELSE "choose_raised", wrapper |-> FALSE,
                  payload |-> ot.payload, svc |-> ot.svc, label |-> ot.label,
                  tampered |-> ot.tampered, index |-> index, draws |-> draws, res |-> r,
                  views |-> [j \in 0..(r.sessions - 1) |->
                               SessionView(draws[j].a, draws[j].b, BitAtLsb(index, j),
                                           ot.svc.seed0[j], ot.svc.seed1[j])]]
    /\ UNCHANGED <<pub, store, pads, plain, ev, odfa, bld, fs>>

SeedsNext == NewSender \/ ChooseSeeds

SpecSeeds == OtMInit /\ [][SeedsNext]_vars

-----------------------------------------------------------------------------
(* Properties of the 1-of-m OT and of its wrapper                           *)

\* C14 as stated: for every payload of m >= 1 items and every index i in [0, m), the
\* chooser made with the sender's label returns exactly payload[i], an int in
\* [1, q-1] for an int payload and bytes of the common entry length for a bytes
\* payload.
C14_ChooserReturnsItem ==
    ( /\ ot.pc \in {"chosen", "choose_raised"} /\ ~ot.wrapper
      /\ ot.label = ot.svc.label
      /\ 0 <= ot.index /\ ot.index < ot.svc.m ) =>
        /\ ot.res.ok
        /\ ot.res.val = ot.payload[ot.index + 1]
        /\ ot.svc.mode = "INT" =>
             ot.res.val.int /\ 1 <= IntOf(ot.res.val) /\ IntOf(ot.res.val) <= GroupQ - 1
        /\ ot.svc.mode = "BYTES" =>
             ~ot.res.val.int /\ Len(ot.res.val.val) = Len(ot.payload[1].val)

\* C18 as stated: on a table of the full size with equal-length entries, choose(i)
\* is table[i] for every i of the table, and choose_many(indices) is the list of
\* table[indices[k]] in the order of the indices, one result per index.
C18_WrapperReturnsEntries ==
    /\ (ot.pc \in {"chosen", "choose_raised"} /\ ot.wrapper
        /\ 0 <= ot.index /\ ot.index < OtAlphabet) =>
          ot.res.ok /\ ot.res.val = ot.payload[ot.index + 1]
    /\ (ot.pc \in {"chosen_many", "many_raised"}) =>
          /\ ot.res.ok
          /\ Len(ot.res.out) = Len(ot.indices)
          /\ \A k \in 1..Len(ot.indices) : ot.res.out[k] = ot.payload[ot.indices[k] + 1]

\* C19: choose(index) with an index outside the table's range fails without running
\* any OT session, and make_ot256_services rejects a table that has not exactly the
\* full number of entries or whose entries are not all of one length.
C19_WrapperRejects ==
    /\ (ot.pc \in {"chosen", "choose_raised"} /\ ot.wrapper
        /\ ~(0 <= ot.index /\ ot.index < OtAlphabet)) =>
          /\ ot.pc = "choose_raised" /\ ~ot.res.ok /\ ot.res.err = "index_256"
          /\ ot.res.sessions = 0
    /\ (ot.pc # "new" /\ ot.wrapper
        /\ \/ Len(ot.payload) # OtAlphabet
           \/ \E i \in 1..Len(ot.payload) : Len(ot.payload[i].val) # Len(ot.payload[1].val)) =>
          ot.pc = "sender_raised" /\ ~ot.svc.ok

\* the wrapper refused an index one past the table
C19_Witness ==
    /\ ot.pc = "choose_raised" /\ ot.wrapper
    /\ ot.index = OtAlphabet /\ ot.res.err = "index_256" /\ ot.res.sessions = 0

-----------------------------------------------------------------------------
(* Properties of the row tables of build_row_ot_plan                        *)

C21_TamperChangesOnlyThatIndex ==
    ( /\ ot.pc \in {"chosen", "choose_raised"} /\ ~ot.wrapper
      /\ ot.label = ot.svc.label /\ ot.tampered >= 0
      /\ 0 <= ot.index /\ ot.index < ot.svc.m ) =>
        /\ ot.index = ot.tampered =>
             ~(ot.res.ok /\ ot.res.val = ot.payload[ot.index + 1])
        /\ ot.index # ot.tampered =>
             ot.res.ok /\ ot.res.val = ot.payload[ot.index + 1]

Obtains(j, w) ==
    /\ j \in DOMAIN ot.views /\ ot.views[j].ok
    /\ Unmask(ot.views[j], w) = (IF w = 1 THEN ot.svc.seed1[j] ELSE ot.svc.seed0[j])

\* C32 as stated: to choose index i among m items the chooser runs exactly
\* l = (m-1).bit_length() base 1-of-2 OTs, the j-th with choice bit equal to bit j of i
\* (LSB first), and so obtains only the seeds s_{bit_j(i)}_j: for every other index t
\* at least one seed needed for pad_t is not obtained. When m = 1 no base OT is run,
\* the pad is all-zero and the ciphertext equals the plaintext.
C32_ChooserObtainsOnlyItsSeeds ==
    (ot.pc \in {"chosen", "choose_raised"} /\ "views" \in DOMAIN ot) =>
        /\ ot.svc.l = BitLength(ot.svc.m - 1)
        /\ DOMAIN ot.views = 0..(ot.svc.l - 1)
        /\ \A j \in DOMAIN ot.views :
             /\ ot.views[j].bit = (ot.index \div Pow2(j)) % 2
             /\ Obtains(j, ot.views[j].bit)
        /\ \A t \in 0..(ot.svc.m - 1) :
             t # ot.index => \E j \in 0..(ot.svc.l - 1) : ~Obtains(j, (t \div Pow2(j)) % 2)
        /\ ot.svc.m = 1 =>
             /\ ot.res.sessions = 0
             /\ ot.res.ok /\ ot.res.val = ot.payload[1]
             /\ ot.svc.ciphertexts[0] =
                  (IF ot.payload[1].int THEN I2OSP(IntOf(ot.payload[1]), ot.svc.entry_len)
                   ELSE ot.payload[1].val)

\* block k of the table entry of symbol x
EntryBlock(x, k) ==
    Slice(ot.table[x], k * OtPack.kprime_bytes, (k + 1) * OtPack.kprime_bytes)

\* the entry of x starts with the group keys of sym_to_cols[x], in ascending column
\* order, and goes on with the blocks drawn for that entry
KeysThenDraws(x) ==
    /\ \A k \in DOMAIN ot.alpha[x] :
         /\ EntryBlock(x, k) = ot.gk_by_col[ot.alpha[x][k]]
         /\ k > 0 => ot.alpha[x][k - 1] < ot.alpha[x][k]
    /\ \A k \in Size(ot.alpha[x])..(EvCmax - 1) : EntryBlock(x, k) = ot.blocks[x][k]

\* C33 as stated: the entry for symbol x consists of GK[row_id][c] for each c in
\* sym_to_cols[x] in ascending column order, followed by padding blocks drawn at
\* random for that entry; the entry contains no group key of a column outside
\* sym_to_cols[x]; the plan's label is "OT256|row=" and the 4-byte big-endian row_id.
C33_AsStated ==
    (ot.pc \in {"built", "derived"}) =>
        /\ ot.label = AsciiOt256Row \o ToBytesBE(ot.row_id, 4)
        /\ \A x \in DOMAIN ot.table :
             /\ KeysThenDraws(x)
             /\ \A c \in EvCols \ ColsOf(x) : \A k \in 0..(EvCmax - 1) :
                  EntryBlock(x, k) # ot.gk_by_col[c]

\* C33 amended: the entry for symbol x consists of GK[row_id][c] for each c in
\* sym_to_cols[x] in ascending column order, followed by blocks drawn by os.urandom
\* for that entry, whatever the group keys are; a block of the entry equals the group
\* key of a column outside sym_to_cols[x] only where a drawn block, or the key of a
\* column of sym_to_cols[x], happens to have that value; the plan's label is
\* "OT256|row=" and the 4-byte big-endian row_id.
C33_EntryKeysThenFreshBlocks ==
    (ot.pc \in {"built", "derived"}) =>
        /\ ot.label = AsciiOt256Row \o ToBytesBE(ot.row_id, 4)
        /\ \A x \in DOMAIN ot.table :
             /\ KeysThenDraws(x)
             /\ \A c \in EvCols \ ColsOf(x) : \A k \in 0..(EvCmax - 1) :
                  EntryBlock(x, k) = ot.gk_by_col[c] =>
                      \/ k >= Size(ot.alpha[x]) /\ ot.blocks[x][k] = ot.gk_by_col[c]
                      \/ k < Size(ot.alpha[x])
                         /\ ot.gk_by_col[ot.alpha[x][k]] = ot.gk_by_col[c]

\* a table with a symbol of both columns and a symbol of column 1 alone whose
\* padding block differs from the key of column 0
C33_Witness ==
    /\ ot.pc = "built" /\ ot.row_id = 2
    /\ \E x \in DOMAIN ot.alpha : Size(ot.alpha[x]) = EvCmax
    /\ \E x \in DOMAIN ot.alpha :
         /\ Size(ot.alpha[x]) = 1 /\ ot.alpha[x][0] = 1
         /\ EntryBlock(x, 1) # ot.gk_by_col[0]
         /\ ot.gk_by_col[0] # ot.gk_by_col[1]

-----------------------------------------------------------------------------
(* sample_perm, one swap of the Fisher-Yates loop at a time                 *)

\* the number of values of int.from_bytes(os.urandom(2), "big")
DrawValues == 65536

\* the largest n sample_perm is called with
MaxPermN == 5

\* the number of 16-bit draws d with d % (i + 1) = j
DrawCount(i, j) == Cardinality({d \in 0..(DrawValues - 1) : d % (i + 1) = j})

\* for every loop index i and every j in [0, i], the number of draws that select j
DrawTable == [i \in 1..(MaxPermN - 1) |-> [j \in 0..i |-> DrawCount(i, j)]]

PermInit ==
    /\ bld = [pc |-> "new", counts |-> DrawTable]
    /\ pub = <<>> /\ store = <<>> /\ pads = <<>> /\ plain = <<>> /\ ev = <<>>
    /\ odfa = <<>> /\ ot = <<>> /\ fs = <<>>

\* sample_perm(n) up to the loop: the ValueError for n < 0, or perm = list(range(n))
PermStart ==
    /\ bld.pc = "new"
    /\ \E n \in (-1)..MaxPermN :
         bld' = IF n < 0 THEN [pc |-> "perm_raised", counts |-> bld.counts, n |-> n]
                ELSE [pc |-> IF n - 1 < 1 THEN "returned" ELSE "loop", counts |-> bld.counts,
                      n |-> n, i |-> n - 1, j |-> -1,
                      perm |-> [k \in 0..(n - 1) |-> k]]
    /\ UNCHANGED <<pub, store, pads, plain, ev, odfa, ot, fs>>

\* one pass of the loop: j = draw % (i + 1), perm[i] and perm[j] swapped; the state
\* keeps the j of the last pass and the index it was drawn for
PermSwap ==
    /\ bld.pc = "loop"
    /\ \E j \in 0..bld.i :
         /\ bld.counts[bld.i][j] > 0
         /\ bld' = [bld EXCEPT !.perm = [@ EXCEPT ![bld.i] = bld.perm[j], ![j] = bld.perm[bld.i]],
                               !.j = j, !.i = @ - 1,
                               !.pc = IF bld.i - 1 < 1 THEN "returned" ELSE "loop"]
    /\ UNCHANGED <<pub, store, pads, plain, ev, odfa, ot, fs>>

PermNext == PermStart \/ PermSwap

SpecPerm == PermInit /\ [][PermNext]_vars

-----------------------------------------------------------------------------
(* Properties of sample_perm                                                *)

\* C24 as stated: every swap index is drawn without bias: at every loop index i in
\* [1, n-1], each j in [0, i] is selected by the same number of the possible draw
\* values.
C24_UnbiasedSwaps ==
    (bld.pc \in {"loop", "returned"} /\ bld.j >= 0) =>
        \A k \in 0..(bld.i + 1) : bld.counts[bld.i + 1][k] = bld.counts[bld.i + 1][bld.j]

-----------------------------------------------------------------------------
(* The OTQueryBuilder on its own: get_token and get_tokens_batch calls on   *)
(* one builder, the batch call one loop iteration at a time                 *)

\* the default of cache_capacity
DefaultCapacity == 8192

\* the number of calls made on one builder
MaxCalls == 2

\* the longest list handed to get_tokens_batch
MaxQueries == 2

\* (row_id, x) of the queries, the last one outside the byte range
QueryKeys == {<<0, 0>>, <<0, 1>>, <<1, 0>>, <<0, 256>>}

\* what the source hands back for a query: two tokens of the expected length, a
\* short one, no bytes at all, or an exception of its own
CacheReplies ==
    { [kind |-> "bytes", val |-> <<1, 1>>], [kind |-> "bytes", val |-> <<2, 2>>],
      [kind |-> "bytes", val |-> <<1>>], [kind |-> "none", val |-> <<>>],
      [kind |-> "raises", val |-> <<>>] }

\* the source was not asked
NoReply == [kind |-> "", val |-> <<>>]

\* the keyword arguments of the constructor: caching with a negative, a zero, a
\* small and the default capacity, and caching disabled
BuilderOptions ==
    {[enable_cache |-> TRUE, cache_capacity |-> c] : c \in {-1, 0, 1, 2, DefaultCapacity}}
    \cup {[enable_cache |-> FALSE, cache_capacity |-> 2]}

\* None in the out list of a batch, and "no token held" in the bookkeeping
NoToken == <<>>

CacheKeys(cache) == {cache[i].key : i \in 1..Len(cache)}

\* bookkeeping of the calls: key becomes the most recently used
Touch(recent, key) == SelectSeq(recent, LAMBDA k : k # key) \o <<key>>

\* bookkeeping of the calls after one cache access: the tokens fetched and not
\* evicted since (held), the keys from least to most recently inserted or hit
\* (recent) and the key this access evicted; fetched is the token just fetched for
\* key, NoToken when none was
Booked(b, after, key, used, fetched) ==
    LET gone == CacheKeys(b.cache) \ CacheKeys(after)
    IN  [evicted |-> IF gone = {} THEN <<>> ELSE CHOOSE k \in gone : TRUE,
         held |-> [k \in DOMAIN b.held |->
                     IF k \in gone THEN NoToken
                     ELSE IF k = key /\ fetched # NoToken THEN fetched ELSE b.held[k]],
         recent |-> SelectSeq(IF used THEN Touch(b.recent, key) ELSE b.recent,
                              LAMBDA k : k \notin gone)]

\* what the last call (or the batch call under way) did
Last(op, key, ok, err, token, asked) ==
    [op |-> op, key |-> key, ok |-> ok, err |-> err, token |-> token, asked |-> asked]

CacheInit ==
    /\ ot = [pc |-> "new"]
    /\ pub = OtPub(EvAidBits)
    /\ store = <<>> /\ pads = <<>> /\ plain = <<>> /\ ev = <<>>
    /\ odfa = <<>> /\ bld = <<>> /\ fs = <<>>

\* OTQueryBuilder(pub, pack, source, enable_cache=..., cache_capacity=...)
NewBuilder ==
    /\ ot.pc = "new"
    /\ \E opt \in BuilderOptions :
         ot' = [pc |-> "ready", enable_cache |-> opt.enable_cache,
                cache_capacity |-> opt.cache_capacity,
                cap |-> IF opt.enable_cache THEN Max(0, opt.cache_capacity) ELSE 0,
                cache |-> <<>>, requests |-> 0, cache_hits |-> 0, calls |-> 0,
                held |-> [k \in QueryKeys |-> NoToken], recent |-> <<>>, evicted |-> <<>>,
                qs |-> <<>>, idx |-> 0, out |-> <<>>, need |-> <<>>, src |-> NoReply,
                last |-> Last("", <<>>, TRUE, "", NoToken, FALSE)]
    /\ UNCHANGED <<pub, store, pads, plain, ev, odfa, bld, fs>>

\* get_token(row_id, x)
GetTokenCall ==
    /\ ot.pc = "ready" /\ ot.calls < MaxCalls
    /\ \E key \in QueryKeys, reply \in CacheReplies :
       \E r \in {GetToken(ot, key[1], key[2], reply, pub, OtPack)} :
       \E b \in {Booked(ot, r.qb.cache, key, r.ok,
                        IF r.ok /\ ~r.hit THEN r.token ELSE NoToken)} :
         ot' = [r.qb EXCEPT !.calls = @ + 1, !.held = b.held, !.recent = b.recent, !.evicted = b.evicted,
                  !.src = IF QuerySane(key[1], key[2], pub) /\ ~r.hit THEN reply ELSE NoReply,
                  !.last = Last("get_token", key, r.ok, r.err, r.token,
                                QuerySane(key[1], key[2], pub) /\ ~r.hit)]
    /\ UNCHANGED <<pub, store, pads, plain, ev, odfa, bld, fs>>

\* get_tokens_batch(queries) up to the first loop: [] for no queries
BatchStart ==
    /\ ot.pc = "ready" /\ ot.calls < MaxCalls
    /\ \E qs \in SeqsUpTo(QueryKeys, MaxQueries) :
         ot' = [ot EXCEPT !.calls = @ + 1,
                  !.pc = IF Len(qs) = 0 THEN "ready" ELSE "scan",
                  !.qs = qs, !.idx = 1, !.out = [i \in 1..Len(qs) |-> NoToken],
                  !.need = <<>>, !.src = NoReply,
                  !.last = Last("get_tokens_batch", <<>>, TRUE, "", NoToken, FALSE)]
    /\ UNCHANGED <<pub, store, pads, plain, ev, odfa, bld, fs>>

\* one pass of the first loop of get_tokens_batch: the sanity check of the query,
\* then a cache hit, or the key is registered for fetching unless it already is;
\* after the last query the call returns when nothing is to fetch
BatchScan ==
    /\ ot.pc = "scan"
    /\ LET key == ot.qs[ot.idx]
           got == CacheGet(ot.cap, ot.cache, key)
           need == IF got.hit \/ \E i \in 1..Len(ot.need) : ot.need[i] = key
                   THEN ot.need ELSE Append(ot.need, key)
           b == Booked(ot, got.cache, key, got.hit, NoToken)
       IN  IF ~QuerySane(key[1], key[2], pub)
           THEN ot' = [ot EXCEPT !.pc = "ready",
                         !.last = Last("get_tokens_batch", key, FALSE, "query_range",
                                       NoToken, FALSE)]
           ELSE ot' = [ot EXCEPT
                         !.cache = got.cache,
                         !.cache_hits = IF got.hit THEN @ + 1 ELSE @,
                         !.out[ot.idx] = IF got.hit THEN got.val ELSE @,
                         !.need = need, !.idx = @ + 1,
                         !.held = b.held, !.recent = b.recent, !.evicted = b.evicted,
                         !.pc = IF ot.idx < Len(ot.qs) THEN "scan"
                                ELSE IF Len(need) = 0 THEN "ready" ELSE "fetch",
                         !.last = Last("get_tokens_batch", key, TRUE, "",
                                       IF got.hit THEN got.val ELSE NoToken, FALSE)]
    /\ UNCHANGED <<pub, store, pads, plain, ev, odfa, bld, fs>>

\* one pass of the second loop of get_tokens_batch: the source is asked for the next
\* key to fetch, the token is checked, stored and counted, and every open position
\* of that key is filled; after the last key the call returns
BatchFetch ==
    /\ ot.pc = "fetch"
    /\ \E reply \in CacheReplies :
         LET key == Head(ot.need)
             err == IF reply.kind = "raises" THEN "source"
                    ELSE IF reply.kind # "bytes" THEN "type_error"
                    ELSE IF Len(reply.val) # OtPack.cmax * OtPack.kprime_bytes
                    THEN "token_length" ELSE ""
             after == CachePut(ot.cap, ot.cache, key, reply.val)
             b == Booked(ot, after, key, TRUE, reply.val)
         IN  IF err # ""
             THEN ot' = [ot EXCEPT !.pc = "ready", !.src = reply,
                           !.last = Last("get_tokens_batch", key, FALSE, err, NoToken, TRUE)]
             ELSE ot' = [ot EXCEPT
                           !.cache = after, !.requests = @ + 1,
                           !.out = [i \in 1..Len(ot.qs) |->
                                      IF ot.out[i] = NoToken /\ ot.qs[i] = key
                                      THEN reply.val ELSE ot.out[i]],
                           !.need = Tail(@), !.src = reply,
                           !.held = b.held, !.recent = b.recent, !.evicted = b.evicted,
                           !.pc = IF Len(ot.need) = 1 THEN "ready" ELSE "fetch",
                           !.last = Last("get_tokens_batch", key, TRUE, "", reply.val, TRUE)]
    /\ UNCHANGED <<pub, store, pads, plain, ev, odfa, bld, fs>>

CacheNext == NewBuilder \/ GetTokenCall \/ BatchStart \/ BatchScan \/ BatchFetch

SpecCache == CacheInit /\ [][CacheNext]_vars

-----------------------------------------------------------------------------
(* Properties of the OTQueryBuilder's cache                                 *)

\* the step is a whole get_token call
GetTokenDone ==
    /\ ot.pc = "ready" /\ ot'.pc = "ready" /\ ot'.calls = ot.calls + 1
    /\ ot'.last.op = "get_token"

\* the call served the token held for its key from the cache: the same bytes, the
\* source not asked, cache_hits incremented, requests unchanged
ServedFromCache ==
    /\ ot'.last.ok /\ ot'.last.token = ot.held[ot'.last.key]
    /\ ~ot'.last.asked
    /\ ot'.cache_hits = ot.cache_hits + 1
    /\ ot'.requests = ot.requests

\* C26 as stated: once a token has been fetched for (row_id, x), and for as long as
\* that key has not been evicted, every later get_token(row_id, x) returns the same
\* token bytes without calling the token source, incrementing cache_hits and
\* leaving requests unchanged.
C26_AsStated ==
    [][(GetTokenDone /\ ot.held[ot'.last.key] # NoToken) => ServedFromCache]_vars

\* C26 amended: on a builder whose cache is enabled with a capacity of at least 1,
\* once a token has been fetched for (row_id, x), and for as long as that key has not
\* been evicted, every later get_token(row_id, x) returns the same token bytes
\* without calling the token source, incrementing cache_hits and leaving requests
\* unchanged.
C26_CachedTokenServed ==
    [][(GetTokenDone /\ ot.cap >= 1 /\ ot.held[ot'.last.key] # NoToken)
         => ServedFromCache]_vars

\* a get_token was served from the cache after one fetch
C26_Witness ==
    /\ ot.pc = "ready" /\ ot.last.op = "get_token" /\ ot.last.ok /\ ~ot.last.asked
    /\ ot.cache_hits = 1 /\ ot.requests = 1
    /\ ot.last.token = ot.held[ot.last.key] /\ ot.last.token # NoToken

\* the key of the cache that was inserted or hit the longest ago
LeastRecent(b) == Head(SelectSeq(b.recent, LAMBDA k : k \in CacheKeys(b.cache)))

\* C27: after any sequence of get_token and get_tokens_batch calls the cache holds
\* at most cache_capacity entries (none when caching is disabled or the capacity is
\* 0), and whenever an insertion overflows the capacity the entry evicted is the
\* one least recently inserted or hit.
C27_BoundedLru ==
    [][ot'.pc # "new" =>
        /\ Len(ot'.cache) <= Max(0, ot'.cache_capacity)
        /\ (~ot'.enable_cache \/ ot'.cache_capacity = 0) => Len(ot'.cache) = 0
        /\ Cardinality(CacheKeys(ot'.cache)) = Len(ot'.cache)
        /\ (ot.pc # "new" /\ ot'.cache # ot.cache) =>
             LET gone == CacheKeys(ot.cache) \ CacheKeys(ot'.cache)
             IN  gone # {} =>
                   /\ Len(ot.cache) = ot.cap
                   /\ CacheKeys(ot'.cache) \ CacheKeys(ot.cache) # {}
                   /\ gone = {LeastRecent(ot)}]_vars

\* a cache of capacity 2 evicted a key after a hit had changed the order of use
C27_Witness ==
    /\ ot.pc \in {"ready", "fetch"} /\ ot.cap = 2 /\ ot.evicted # <<>>
    /\ ot.cache_hits >= 1 /\ Len(ot.cache) = 2

\* the exception get_token raises for what the source did, "" when it accepts it
Refusal(reply) ==
    IF reply.kind = "raises" THEN "source"
    ELSE IF reply.kind # "bytes" THEN "type_error"
    ELSE IF Len(reply.val) # ExpectedLen THEN "token_length"
    ELSE ""

\* C38: when the token source raises, or returns a value that is not bytes or not of
\* length cmax * kprime_bytes, get_token fails with that error and leaves the cache,
\* requests and cache_hits as they were; a value the source returned and get_token
\* accepted is returned, stored and counted; hence every cached token and every
\* token a call returns has the expected length.
C38_RejectedTokenLeavesNoTrace ==
    [][ GetTokenDone =>
          /\ \A i \in 1..Len(ot'.cache) : Len(ot'.cache[i].val) = ExpectedLen
          /\ ot'.last.ok => Len(ot'.last.token) = ExpectedLen
          /\ ot'.last.asked =>
               IF Refusal(ot'.src) # ""
               THEN /\ ~ot'.last.ok /\ ot'.last.err = Refusal(ot'.src)
                    /\ ot'.cache = ot.cache
                    /\ ot'.requests = ot.requests
                    /\ ot'.cache_hits = ot.cache_hits
               ELSE /\ ot'.last.ok /\ ot'.last.token = ot'.src.val
                    /\ ot'.requests = ot.requests + 1
                    /\ ot'.cache_hits = ot.cache_hits
                    /\ ot.cap >= 1 =>
                         ot'.cache[Len(ot'.cache)] =
                             [key |-> ot'.last.key, val |-> ot'.src.val] ]_vars

\* a short token for a key was refused by a builder that holds another key's token
C38_Witness ==
    /\ ot.pc = "ready" /\ ot.last.op = "get_token" /\ ~ot.last.ok
    /\ ot.last.err = "token_length" /\ ot.src.val = <<1>>
    /\ ot.requests = 1 /\ Len(ot.cache) = 1
    /\ ot.last.key \notin CacheKeys(ot.cache)

\* the keys of seq in the order of their first occurrence
RECURSIVE FirstOccurrences(_)
FirstOccurrences(seq) ==
    IF seq = <<>> THEN <<>>
    ELSE LET front == FirstOccurrences(SubSeq(seq, 1, Len(seq) - 1))
             k == seq[Len(seq)]
         IN  IF \E i \in 1..Len(front) : front[i] = k THEN front ELSE Append(front, k)

\* the keys of the open positions of a batch: the first n queries whose position in
\* out has no token yet
OpenKeys(b, n) ==
    LET open == {i \in 1..n : b.out[i] = NoToken}
        pick[i \in 0..n] ==
            IF i = 0 THEN <<>>
            ELSE IF i \in open THEN Append(pick[i - 1], b.qs[i]) ELSE pick[i - 1]
    IN  pick[n]

\* the query has a row of the header and a byte for x
InRange(key) == key[1] \in 0..(pub.num_states - 1) /\ key[2] \in 0..255

\* the batch call under way returns its list in this step
BatchReturns ==
    /\ ot.pc \in {"scan", "fetch"} /\ ot'.pc = "ready" /\ ot'.last.ok

\* C35: get_tokens_batch returns exactly one token per query, in the order of the
\* queries, each equal to the token for that query's (row_id, x), and calls the token
\* source at most once for each distinct uncached key of the batch, in order of
\* first occurrence; if any query is out of range it fails before calling the token
\* source at all.
C35_BatchOnePerQuery ==
    [][ /\ (ot.pc = "scan" /\ ot'.pc # "ready") =>
              \* the keys to fetch are the uncached keys met so far, each once
              /\ ot'.need = FirstOccurrences(OpenKeys(ot', ot'.idx - 1))
              /\ \A i \in 1..Len(ot'.need) : ot'.need[i] \notin CacheKeys(ot'.cache)
              /\ ot'.requests = ot.requests /\ ~ot'.last.asked
              /\ ot'.out[ot.idx] # NoToken => ot'.out[ot.idx] = ot.held[ot.qs[ot.idx]]
        /\ ot.pc = "fetch" =>
              \* one call of the source, for the first key still open
              /\ ot.need = FirstOccurrences(OpenKeys(ot, Len(ot.qs)))
              /\ ot'.last.asked /\ ot'.last.key = Head(ot.need)
              /\ ot'.last.ok =>
                    /\ ot'.requests = ot.requests + 1
                    /\ ot'.need = Tail(ot.need)
                    /\ \A i \in 1..Len(ot.qs) :
                         ot'.out[i] = IF ot.out[i] = NoToken /\ ot.qs[i] = Head(ot.need)
                                      THEN ot'.last.token ELSE ot.out[i]
              /\ \A i \in 1..Len(ot.qs) : InRange(ot.qs[i])
        /\ BatchReturns =>
              /\ Len(ot'.out) = Len(ot'.qs)
              /\ \A i \in 1..Len(ot'.qs) :
                   /\ ot'.out[i] # NoToken
                   /\ Len(ot'.out[i]) = OtPack.cmax * OtPack.kprime_bytes
                   /\ \A j \in 1..Len(ot'.qs) : ot'.qs[i] = ot'.qs[j] => ot'.out[i] = ot'.out[j]
                   /\ ot'.qs[i] \in CacheKeys(ot'.cache) => ot'.out[i] = ot'.held[ot'.qs[i]]
        /\ (ot.pc = "scan" /\ ~InRange(ot.qs[ot.idx])) =>
              /\ ot'.pc = "ready" /\ ~ot'.last.ok /\ ot'.last.err = "query_range"
              /\ ot'.requests = ot.requests /\ ~ot'.last.asked
        /\ (ot.pc = "ready" /\ ot'.last.op = "get_tokens_batch" /\ ot'.pc = "ready") =>
              ot'.qs = <<>> /\ ot'.out = <<>> /\ ot'.requests = ot.requests ]_vars

\* a batch of the same uncached key twice returned the one fetched token twice
C35_Witness ==
    /\ ot.pc = "ready" /\ ot.last.op = "get_tokens_batch" /\ ot.last.ok
    /\ Len(ot.qs) = 2 /\ ot.qs[1] = ot.qs[2]
    /\ ot.requests = 1 /\ ot.cache_hits = 0 /\ ot.calls = 1
    /\ ot.out[1] = ot.out[2] /\ ot.out[1] # NoToken

-----------------------------------------------------------------------------
(* Two evaluation streams over one RowStore, header and oracle: two calls   *)
(* of evaluate whose loop iterations interleave in any order                *)

Streams == {1, 2}

\* the longest input of a stream
MaxStreamLen == 2

\* the attack ids of the forged cells: the test's (aid 9 in row 2, column 0) and a
\* table with an attack in column 1 as well
StreamAids ==
    { [r \in EvRows |-> [c \in EvCols |-> IF r = 2 /\ c = 0 THEN 9 ELSE 0]],
      [r \in EvRows |-> [c \in EvCols |->
          IF r = 2 /\ c = 0 THEN 9 ELSE IF r = 1 /\ c = 1 THEN 7 ELSE 0]] }

StreamsInit ==
    /\ pub = EvPub
    /\ \E aids \in StreamAids : plain = EvTransitions(aids)
    /\ pads \in PadTables
    /\ store = [r \in EvRows |-> ForgeRow(plain, pads, r, pub)]
    /\ ev = [s \in Streams |-> [loc |-> EvIdle, overlap |-> FALSE]]
    /\ odfa = <<>> /\ bld = <<>> /\ ot = <<>> /\ fs = <<>>

\* stream s calls evaluate, for the first time or after an earlier call returned
StreamStart(s) ==
    /\ ev[s].loc.pc \in {"idle", "returned", "raised"}
    /\ \E data \in SeqsUpTo(InputBytes, MaxStreamLen), stop \in BOOLEAN :
         ev' = [ev EXCEPT ![s] = [loc |-> Begin(data, stop), overlap |-> FALSE]]
    /\ UNCHANGED <<pub, store, pads, plain, odfa, bld, ot, fs>>

\* one iteration of the loop of stream s; overlap records that the other stream was
\* in the middle of its own evaluation at that moment
StreamStep(s) ==
    /\ ev[s].loc.pc = "loop"
    /\ ev' = [ev EXCEPT ![s] =
                [loc |-> LoopPass(ev[s].loc),
                 overlap |-> ev[s].overlap
                             \/ \E t \in Streams \ {s} :
                                  ev[t].loc.pc = "loop" /\ ev[t].loc.pos >= 1]]
    /\ UNCHANGED <<pub, store, pads, plain, odfa, bld, ot, fs>>

StreamsNext == \E s \in Streams : StreamStart(s) \/ StreamStep(s)

SpecStreams == StreamsInit /\ [][StreamsNext]_vars

-----------------------------------------------------------------------------
(* Properties of the streams                                                *)

\* the run of evaluate(data, stop_on_first_attack=stop) alone from start_row, read
\* off the transitions the rows were forged from; r is the run so far
RECURSIVE Alone(_, _, _)
Alone(data, stop, r) ==
    IF r.steps = Len(data) THEN r
    ELSE LET cell == plain[r.final_row][data[r.steps + 1] % EvOutmax]
             r1 == [final_row |-> cell.ns,
                    first_attack_id |-> IF cell.aid > 0 /\ r.first_attack_id = 0
                                        THEN cell.aid ELSE r.first_attack_id,
                    last_attack_id |-> IF cell.aid > 0 THEN cell.aid ELSE r.last_attack_id,
                    steps |-> r.steps + 1]
         IN  IF stop /\ cell.aid > 0 THEN r1 ELSE Alone(data, stop, r1)

\* C28: evaluation streams are independent: under any interleaving of two
\* evaluations that share the RowStore, the header and the runner, and for successive
\* calls of one stream, no evaluation raises, each returns the result it would
\* return running alone from start_row, and no step changes the header, the
\* RowStore or the runner's oracle.
C28_StreamsIndependent ==
    [][/\ pub' = pub /\ store' = store /\ pads' = pads
       /\ \A s \in Streams :
            /\ ev'[s].loc.pc # "raised"
            /\ ev'[s].loc.pc = "returned" =>
                 ev'[s].loc.result =
                   <<Alone(ev'[s].loc.data, ev'[s].loc.stop,
                           [final_row |-> pub.start_row, first_attack_id |-> 0,
                            last_attack_id |-> 0, steps |-> 0])>>]_vars

\* both streams returned from evaluations over different inputs whose iterations
\* overlapped, one of them stopped by an attack
C28_Witness ==
    /\ \A s \in Streams : ev[s].loc.pc = "returned" /\ ev[s].overlap /\ ev[s].loc.steps >= 2
    /\ ev[1].loc.data # ev[2].loc.data
    /\ ev[1].loc.result # ev[2].loc.result
    /\ ev[1].loc.first > 0

-----------------------------------------------------------------------------
(* Two streams calling get_token on one OTQueryBuilder: a call is suspended *)
(* only inside token_source.get_token, where the other stream may run       *)

\* the number of get_token calls of one stream
MaxSharedCalls == 2

\* get_token up to the call of the source: the sanity check and the cache lookup;
\* done = TRUE when the call ends here, with a hit or the ValueError
BeforeSource(qb, row_id, x, p) ==
    LET got == CacheGet(qb.cap, qb.cache, <<row_id, x>>)
    IN  IF ~QuerySane(row_id, x, p)
        THEN [qb |-> qb, done |-> TRUE, ok |-> FALSE, err |-> "query_range",
              token |-> <<>>]
        ELSE IF got.hit
        THEN [qb |-> [qb EXCEPT !.cache = got.cache, !.cache_hits = @ + 1],
              done |-> TRUE, ok |-> TRUE, err |-> "", token |-> got.val]
        ELSE [qb |-> qb, done |-> FALSE, ok |-> TRUE, err |-> "", token |-> <<>>]

\* get_token from the return of the source on: the type and length checks, then
\* the token is stored and counted
AfterSource(qb, key, reply, pack) ==
    IF reply.kind = "raises"
    THEN [qb |-> qb, ok |-> FALSE, err |-> "source", token |-> <<>>]
    ELSE IF reply.kind # "bytes"
    THEN [qb |-> qb, ok |-> FALSE, err |-> "type_error", token |-> <<>>]
    ELSE IF Len(reply.val) # pack.cmax * pack.kprime_bytes
    THEN [qb |-> qb, ok |-> FALSE, err |-> "token_length", token |-> <<>>]
    ELSE [qb |-> [qb EXCEPT !.cache = CachePut(qb.cap, @, key, reply.val),
                            !.requests = @ + 1],
          ok |-> TRUE, err |-> "", token |-> reply.val]

\* a stream outside get_token, its last call having ended with (ok, err, token)
Outside(calls, key, ok, err, token) ==
    [pc |-> "idle", calls |-> calls, key |-> key, ok |-> ok, err |-> err,
     token |-> token]

SharedInit ==
    /\ \E cap \in CacheCapacities :
         ot = [cap |-> cap, cache |-> <<>>, requests |-> 0, cache_hits |-> 0,
               asked |-> 0, fetched |-> 0, fills |-> [k \in QueryKeys |-> 0],
               streams |-> [s \in Streams |-> Outside(0, <<>>, TRUE, "", NoToken)]]
    /\ pub = OtPub(EvAidBits)
    /\ store = <<>> /\ pads = <<>> /\ plain = <<>> /\ ev = <<>>
    /\ odfa = <<>> /\ bld = <<>> /\ fs = <<>>

\* stream s calls get_token(row_id, x): the call returns on a hit, raises on a bad
\* query, or asks the source and is suspended there
SharedCall(s) ==
    /\ ot.streams[s].pc = "idle" /\ ot.streams[s].calls < MaxSharedCalls
    /\ \E key \in QueryKeys :
       \E r \in {BeforeSource([cap |-> ot.cap, cache |-> ot.cache,
                               requests |-> ot.requests, cache_hits |-> ot.cache_hits],
                              key[1], key[2], pub)} :
         ot' = [ot EXCEPT
                  !.cache = r.qb.cache, !.cache_hits = r.qb.cache_hits,
                  !.asked = IF r.done THEN @ ELSE @ + 1,
                  !.streams[s] =
                     IF r.done
                     THEN Outside(@.calls + 1, key, r.ok, r.err, r.token)
                     ELSE [pc |-> "source", calls |-> @.calls + 1, key |-> key,
                           ok |-> TRUE, err |-> "", token |-> NoToken]]
    /\ UNCHANGED <<pub, store, pads, plain, ev, odfa, bld, fs>>

\* the source answers stream s, whose get_token runs to its end
SharedResume(s) ==
    /\ ot.streams[s].pc = "source"
    /\ \E reply \in CacheReplies :
       \E r \in {AfterSource([cap |-> ot.cap, cache |-> ot.cache,
                              requests |-> ot.requests, cache_hits |-> ot.cache_hits],
                             ot.streams[s].key, reply, OtPack)} :
         LET key  == ot.streams[s].key
             gone == CacheKeys(ot.cache) \ CacheKeys(r.qb.cache)
         IN  ot' = [ot EXCEPT
                      !.cache = r.qb.cache, !.requests = r.qb.requests,
                      !.fetched = IF r.ok THEN @ + 1 ELSE @,
                      !.fills = [k \in QueryKeys |->
                                   IF k \in gone THEN 0
                                   ELSE IF k = key /\ r.ok /\ ot.cap > 0
                                   THEN ot.fills[k] + 1
                                   ELSE ot.fills[k]],
                      !.streams[s] = Outside(@.calls, key, r.ok, r.err, r.token)]
    /\ UNCHANGED <<pub, store, pads, plain, ev, odfa, bld, fs>>

SharedNext == \E s \in Streams : SharedCall(s) \/ SharedResume(s)

SpecShared == SharedInit /\ [][SharedNext]_vars

\* C39 as stated: when two streams share one OTQueryBuilder and interleave at token
\* retrieval, a key is fetched from the token source at most once while it stays
\* cached (fills counts the tokens fetched for a key since it entered the cache),
\* the cache never exceeds its capacity, and requests equals the number of tokens
\* fetched from the source.
C39_AsStated ==
    /\ \A k \in QueryKeys : ot.fills[k] <= 1
    /\ Len(ot.cache) <= ot.cap
    /\ ot.requests = ot.fetched

\* what the interleaving leaves intact: the cache stays within its capacity with
\* one entry per key, requests counts the tokens fetched, and a call asks the source
\* only for a key that is not cached when the call starts
SharedCounters ==
    /\ Len(ot.cache) <= ot.cap
    /\ Cardinality(CacheKeys(ot.cache)) = Len(ot.cache)
    /\ ot.requests = ot.fetched
    /\ ot.requests <= ot.asked

SharedAsksOnMiss ==
    [][\A s \in Streams :
         (ot.streams[s].pc = "idle" /\ ot'.streams[s].pc = "source")
            => ot'.streams[s].key \notin CacheKeys(ot.cache)]_vars

=============================================================================
